---- MODULE Spec2Model ----
(***************************************************************************)
(* Chaos-draft companion app: the session store (src/state/sessionStore),  *)
(* the Draft page (src/pages/Draft.tsx), the inventory store               *)
(* (src/state/inventoryStore, held in src/unnamed/part_001) and the draft  *)
(* history store (src/state/draftHistoryStore).                            *)
(***************************************************************************)
EXTENDS Integers, Sequences, FiniteSets, TLC

VARIABLES
    db,                 \* the durable "packs" collection: pack id -> document or NoDoc
    auth,               \* auth[c]: auth.currentUser?.uid of client c (NoUser when signed out)
    packs,              \* useInventoryStore.packs of the session's client
    call,               \* call[c]: the confirmSessionPicks call of client c in flight
    players,            \* useSessionStore.players
    numPacks,           \* useSessionStore.numPacks
    packsSelectedOrder, \* useSessionStore.packsSelectedOrder
    tempInventory,      \* useSessionStore.tempInventory
    confirmed,          \* useSessionStore.confirmed
    confirmPc,          \* position of the async confirmSession: "idle" or "awaiting"
    spinning,           \* Draft: the spinning state
    selectedPackRef,    \* Draft: selectedPackRef.current (Null when unset)
    timeouts,           \* Draft: number of pending setTimeout callbacks of finished spins
    undone,             \* history: position and id of the pick the last undoLastPick removed
    drafts,             \* the durable "drafts" collection: draft id -> document or NoDoc
    localDrafts         \* useDraftHistoryStore.drafts of the session's client (draft ids)

vars == <<db, auth, packs, call, players, numPacks, packsSelectedOrder,
          tempInventory, confirmed, confirmPc, spinning, selectedPackRef,
          timeouts, undone, drafts, localDrafts>>

sessionVars == <<players, numPacks, packsSelectedOrder, tempInventory, confirmed>>
draftVars == <<spinning, selectedPackRef, timeouts>>
repoVars == <<db, auth, call>>
histVars == <<drafts, localDrafts>>

(***************************************************************************)
(* Bounds of the model.                                                    *)
(***************************************************************************)
MaxQty == 2         \* largest inPerson of a pack at the start
MaxTransit == 1     \* largest inTransit of a pack at the start
MaxPlayers == 2     \* largest number of players of a session
MaxPicks == 3       \* cap on the length of packsSelectedOrder
MaxListLen == 2     \* longest pick list passed to confirmSessionPicks directly
MaxAttempts == 2    \* attempts of one transaction before it is reported failed
MaxAdd == 1         \* largest count (either sign) an addPack input carries
MaxStock == 2       \* cap on the size of the inPerson and inTransit an add or update may reach

PackIds == {"A", "B"}
IdOrder == <<"A", "B">>          \* document ids in the order a query returns them
Users == {"u1", "u2"}
Clients == {"c1", "c2"}
NoUser == "none"
Null == [id |-> "null"]          \* JavaScript null / an unset ref
NoDoc == [exists |-> FALSE]      \* a document snapshot with exists() = false
DraftIds == {"d1"}               \* document ids of the "drafts" collection
AllIdOrder == <<"A", "B", "C", "D", "N">>   \* every pack document id, in query order

Max(a, b) == IF a >= b THEN a ELSE b

(***************************************************************************)
(* Pack (inventoryStore Pack interface): id, name, inPerson, inTransit,    *)
(* ownerId.  imageUrl is a display string no operation reads.              *)
(***************************************************************************)
Pack(i, n, t, o) ==
    [id |-> i, name |-> "n", inPerson |-> n, inTransit |-> t, ownerId |-> o]

\* Array.prototype.some / find on ids
HasId(s, i) == \E k \in 1..Len(s) : s[k].id = i

\* number of occurrences of id i in the pack list s
RECURSIVE CountId(_, _)
CountId(s, i) ==
    IF s = <<>> THEN 0
    ELSE (IF Head(s).id = i THEN 1 ELSE 0) + CountId(Tail(s), i)

(***************************************************************************)
(* Session store (src/src/state/sessionStore.ts).  Each operation is an    *)
(* operator from the store's state S (a record of its fields) to the state *)
(* that its set(...) leaves.                                               *)
(***************************************************************************)
Session ==
    [players |-> players, numPacks |-> numPacks,
     packsSelectedOrder |-> packsSelectedOrder,
     tempInventory |-> tempInventory, confirmed |-> confirmed]

\* playerNames[i] || `Player ${i + 1}`
PlayerName(playerNames, i) ==
    IF i <= Len(playerNames) /\ playerNames[i] # "" THEN playerNames[i]
    ELSE "Player"

initializeSession(numPlayers, playerNames, inventory) ==
    [players |-> [i \in 1..numPlayers |->
                    [id |-> i, name |-> PlayerName(playerNames, i),
                     selectedPacks |-> <<>>]],
     numPacks |-> numPlayers * 3,
     packsSelectedOrder |-> <<>>,
     tempInventory |-> inventory,
     confirmed |-> FALSE]

\* nextIndex % players.length, as a 1-based position in players
SelectPlayerIndex(len, n) == (len % n) + 1

\* the map(...) of selectPackForNextPlayer: one unit less of the picked pack
DecrementPicked(inv, pack) ==
    [k \in 1..Len(inv) |->
        IF inv[k].id = pack.id
        THEN [inv[k] EXCEPT !.inPerson = inv[k].inPerson - 1]
        ELSE inv[k]]

\* the filter(...) of selectPackForNextPlayer
KeepPackInPersonOnly(p) == p.inPerson > 0
KeepPack(p) == p.inPerson > 0 \/ p.inTransit > 0

selectPackForNextPlayer(S, pack) ==
    LET playerIndex == SelectPlayerIndex(Len(S.packsSelectedOrder), Len(S.players))
    IN  [S EXCEPT
            !.players[playerIndex].selectedPacks = Append(@, pack),
            !.packsSelectedOrder = Append(@, pack),
            !.tempInventory = SelectSeq(DecrementPicked(S.tempInventory, pack), KeepPack)]

resetSessionKeepingTemp(S, inventory) ==
    [S EXCEPT
        !.players = [i \in 1..Len(S.players) |->
                        [S.players[i] EXCEPT !.selectedPacks = <<>>]],
        !.packsSelectedOrder = <<>>,
        !.confirmed = FALSE]
resetSession(S, inventory) ==
    [S EXCEPT
        !.players = [i \in 1..Len(S.players) |->
                        [S.players[i] EXCEPT !.selectedPacks = <<>>]],
        !.packsSelectedOrder = <<>>,
        !.tempInventory = inventory,
        !.confirmed = FALSE]

\* (packsSelectedOrder.length - 1) % players.length, as a 1-based position
UndoPlayerIndexOffByOne(len, n) == (len % n) + 1
UndoPlayerIndex(len, n) == ((len - 1) % n) + 1

\* the pack is put back: its entry incremented, or re-added at the end with inPerson 1
RestoreUnit(inv, last) ==
    IF HasId(inv, last.id)
    THEN [k \in 1..Len(inv) |->
            IF inv[k].id = last.id
            THEN [inv[k] EXCEPT !.inPerson = inv[k].inPerson + 1]
            ELSE inv[k]]
    ELSE Append(inv, [last EXCEPT !.inPerson = 1])

undoLastPick(S) ==
    IF Len(S.packsSelectedOrder) = 0 THEN S
    ELSE
      LET len == Len(S.packsSelectedOrder)
          lastPackSelected == S.packsSelectedOrder[len]
          playerIndex == UndoPlayerIndex(len, Len(S.players))
      IN  [S EXCEPT
              !.players[playerIndex].selectedPacks = SubSeq(@, 1, Len(@) - 1),
              !.packsSelectedOrder = SubSeq(@, 1, len - 1),
              !.tempInventory = RestoreUnit(S.tempInventory, lastPackSelected),
              !.confirmed = FALSE]

SetSession(S) ==
    /\ players' = S.players
    /\ numPacks' = S.numPacks
    /\ packsSelectedOrder' = S.packsSelectedOrder
    /\ tempInventory' = S.tempInventory
    /\ confirmed' = S.confirmed

(***************************************************************************)
(* Initial states.  The inventory store's packs are what loadPacks leaves: *)
(* the signed-in user's documents in id order.                             *)
(***************************************************************************)
\* the inventories a signed-in user "u1" can hold: any subset of the ids, any counts
RECURSIVE InventoriesOver(_)
InventoriesOver(ids) ==
    IF ids = <<>> THEN {<<>>}
    ELSE LET rest == InventoriesOver(Tail(ids))
         IN  rest \cup
             { <<Pack(Head(ids), n, t, "u1")>> \o r :
                 n \in 0..MaxQty, t \in 0..MaxTransit, r \in rest }

Inventories == InventoriesOver(IdOrder)

\* no confirmSessionPicks / deletePack call of the client is running
NoCall ==
    [pc |-> "idle", userId |-> "none", selectedPacks |-> <<>>, packCounts |-> <<>>,
     i |-> 1, docsToUpdate |-> <<>>, attempts |-> 0, stale |-> FALSE,
     outcome |-> "none", target |-> "", players |-> <<>>]
NoUndo == [pos |-> 0, id |-> ""]
AfterReset == [pos |-> 0, id |-> "reset"]   \* history: the session was reset last
\* history: the session was reset while a spin was under way, and the timeout
\* of that spin has not fired yet
ResetDuringSpin == [pos |-> 0, id |-> "resetDuringSpin"]
UndoneBy(order) ==
    IF Len(order) = 0 THEN undone
    ELSE [pos |-> Len(order), id |-> order[Len(order)].id]

\* the durable collection over the document ids ids that holds exactly the
\* packs of the inventory inv
DbOver(ids, inv) ==
    [i \in ids |->
        IF HasId(inv, i)
        THEN LET p == CHOOSE q \in {inv[k] : k \in 1..Len(inv)} : q.id = i
             IN  [exists |-> TRUE, name |-> p.name, inPerson |-> p.inPerson,
                  inTransit |-> p.inTransit, ownerId |-> p.ownerId]
        ELSE NoDoc]
DbOf(inv) == DbOver(PackIds, inv)

\* no draft has been recorded
InitNoHistory ==
    /\ drafts = [d \in DraftIds |-> NoDoc]
    /\ localDrafts = <<>>

InitNoSession ==
    /\ players = <<>>
    /\ numPacks = 0
    /\ packsSelectedOrder = <<>>
    /\ tempInventory = <<>>
    /\ confirmed = FALSE
    /\ confirmPc = "idle"
    /\ spinning = FALSE
    /\ selectedPackRef = Null
    /\ timeouts = 0
    /\ undone = NoUndo

InitStore ==
    /\ packs \in Inventories
    /\ db = DbOf(packs)
    /\ auth = [c \in Clients |-> "u1"]
    /\ call = [c \in Clients |-> NoCall]
    /\ InitNoSession
    /\ InitNoHistory

(***************************************************************************)
(* The session store driven through its exported functions.                *)
(***************************************************************************)
PlayerNameLists == {<<"Ann">>}

InitializeSession ==
    \E n \in 1..MaxPlayers, names \in PlayerNameLists :
        /\ SetSession(initializeSession(n, names, packs))
        /\ undone' = NoUndo
        /\ UNCHANGED <<histVars, packs, confirmPc, draftVars, repoVars>>

SelectPackForNextPlayer ==
    /\ Len(players) > 0
    /\ Len(packsSelectedOrder) < MaxPicks
    /\ \E k \in 1..Len(tempInventory) :
          SetSession(selectPackForNextPlayer(Session, tempInventory[k]))
    /\ UNCHANGED <<histVars, packs, confirmPc, draftVars, repoVars, undone>>

UndoLastPick ==
    /\ Len(players) > 0
    /\ SetSession(undoLastPick(Session))
    /\ undone' = UndoneBy(packsSelectedOrder)
    /\ UNCHANGED <<histVars, packs, confirmPc, draftVars, repoVars>>

ResetSession ==
    /\ Len(players) > 0
    /\ SetSession(resetSession(Session, packs))
    /\ undone' = AfterReset
    /\ UNCHANGED <<histVars, packs, confirmPc, draftVars, repoVars>>

NextStore ==
    \/ InitializeSession
    \/ SelectPackForNextPlayer
    \/ UndoLastPick
    \/ ResetSession

SpecStore == InitStore /\ [][NextStore]_vars

(***************************************************************************)
(* JavaScript number arithmetic as far as the weighted selection needs it: *)
(* a value is a number, NaN, or undefined (a property the object lacks).   *)
(***************************************************************************)
Num(n) == [tag |-> "number", val |-> n]
NaN == [tag |-> "NaN", val |-> 0]
Undefined == [tag |-> "undefined", val |-> 0]

\* p[f]: the property f of the object p
Prop(p, f) == IF f \in DOMAIN p THEN Num(p[f]) ELSE Undefined
JSAdd(a, b) ==
    IF a.tag = "number" /\ b.tag = "number" THEN Num(a.val + b.val) ELSE NaN
JSSub(a, b) ==
    IF a.tag = "number" /\ b.tag = "number" THEN Num(a.val - b.val) ELSE NaN
JSLt(a, b) == a.tag = "number" /\ b.tag = "number" /\ a.val < b.val
JSLe(a, b) == a.tag = "number" /\ b.tag = "number" /\ a.val <= b.val

(***************************************************************************)
(* Draft page (src/src/pages/Draft.tsx).                                   *)
(***************************************************************************)
\* the weight the selection reads from a pack
Quantity(p) == Prop(p, "quantity")

availablePacks(inv, order) ==
    SelectSeq(inv, LAMBDA p : ~HasId(order, p.id))

\* packs.reduce((sum, p) => sum + p.quantity, 0)
RECURSIVE SumQuantity(_, _)
SumQuantity(ps, sum) ==
    IF ps = <<>> THEN sum
    ELSE SumQuantity(Tail(ps), JSAdd(sum, Quantity(Head(ps))))

\* Math.random() * totalWeight, u being the whole part of the product
RandomTimes(u, totalWeight) ==
    IF totalWeight.tag = "number" THEN Num(u) ELSE NaN

\* the for loop of pickWeightedRandomPack from position i on
RECURSIVE WeightedScan(_, _, _)
WeightedScan(ps, i, rand) ==
    IF i > Len(ps) THEN ps[Len(ps)]
    ELSE IF JSLt(rand, Quantity(ps[i])) THEN ps[i]
    ELSE WeightedScan(ps, i + 1, JSSub(rand, Quantity(ps[i])))

\* u: whole part of Math.random() * totalWeight; v: Math.floor(Math.random() * packs.length)
pickWeightedRandomPack(ps, isConfirmed, u, v) ==
    IF isConfirmed THEN Null
    ELSE IF Len(ps) = 0 THEN Null
    ELSE LET totalWeight == SumQuantity(ps, Num(0))
         IN  IF JSLe(totalWeight, Num(0)) THEN ps[v + 1]
             ELSE WeightedScan(ps, 1, RandomTimes(u, totalWeight))

\* the values the two Math.random() calls can produce for the pool ps
WeightDraws(ps) ==
    LET totalWeight == SumQuantity(ps, Num(0))
    IN  IF totalWeight.tag = "number" /\ totalWeight.val > 0
        THEN 0..(totalWeight.val - 1) ELSE {0}
IndexDraws(ps) == IF Len(ps) = 0 THEN {0} ELSE 0..(Len(ps) - 1)

canSpin ==
    /\ ~spinning
    /\ Len(availablePacks(tempInventory, packsSelectedOrder)) > 0
    /\ ~confirmed
canUndo == Len(packsSelectedOrder) > 0 /\ ~spinning /\ ~confirmed
isConfirming == confirmPc # "idle"

\* the Spin button: handleSpin up to the start of the animation
HandleSpin ==
    /\ canSpin
    /\ ~(spinning \/ confirmed)
    /\ LET ps == availablePacks(tempInventory, packsSelectedOrder)
       IN  \E u \in WeightDraws(ps), v \in IndexDraws(ps) :
             LET selectedPack == pickWeightedRandomPack(ps, confirmed, u, v)
             IN  /\ selectedPack # Null
                 /\ selectedPackRef' = selectedPack
                 /\ spinning' = TRUE
    /\ UNCHANGED <<histVars, sessionVars, packs, confirmPc, timeouts, repoVars, undone>>

\* animate at t >= 1: the spin ends and the 100 ms timeout is set.  A spin lasts
\* at least SPINNER_DURATION_BASE_MS, so the timeout of the spin before has fired.
SpinFinished ==
    /\ spinning
    /\ timeouts = 0
    /\ spinning' = FALSE
    /\ timeouts' = timeouts + 1
    /\ UNCHANGED <<histVars, sessionVars, packs, confirmPc, selectedPackRef, repoVars, undone>>

\* the setTimeout callback of animate
PickTimeout ==
    /\ timeouts > 0
    /\ timeouts' = timeouts - 1
    /\ IF selectedPackRef # Null
       THEN /\ Len(players) > 0
            /\ SetSession(selectPackForNextPlayer(Session, selectedPackRef))
            /\ selectedPackRef' = Null
       ELSE UNCHANGED <<sessionVars, selectedPackRef>>
    /\ undone' = IF undone = ResetDuringSpin THEN AfterReset ELSE undone
    /\ UNCHANGED <<histVars, packs, confirmPc, spinning, repoVars>>

\* the Undo Last Pick button, disabled unless canUndo
UndoClick ==
    /\ canUndo
    /\ SetSession(undoLastPick(Session))
    /\ undone' = UndoneBy(packsSelectedOrder)
    /\ UNCHANGED <<histVars, packs, confirmPc, draftVars, repoVars>>

\* the Reset Session button, disabled while isConfirming
ResetClick ==
    /\ ~isConfirming
    /\ Len(players) > 0
    /\ SetSession(resetSession(Session, packs))
    /\ undone' = IF spinning \/ timeouts > 0 THEN ResetDuringSpin ELSE AfterReset
    /\ UNCHANGED <<histVars, packs, confirmPc, draftVars, repoVars>>

NextDraft ==
    \/ InitializeSession
    \/ HandleSpin
    \/ SpinFinished
    \/ PickTimeout
    \/ UndoClick
    \/ ResetClick

SpecDraft == InitStore /\ [][NextDraft]_vars

(***************************************************************************)
(* Inventory store (src/state/inventoryStore, in src/unnamed/part_001) and *)
(* the document backend it calls.  A transaction reads optimistically and  *)
(* its commit is refused when a document it read was written since; the    *)
(* update function is then run again, at most MaxAttempts times in all.    *)
(***************************************************************************)
\* the query of loadPacks: the documents owned by userId, in id order
RECURSIVE LoadFrom(_, _, _)
LoadFrom(d, ids, userId) ==
    IF ids = <<>> THEN <<>>
    ELSE LET i == Head(ids)
             rest == LoadFrom(d, Tail(ids), userId)
         IN  IF d[i].exists /\ d[i].ownerId = userId
             THEN <<[Pack(i, d[i].inPerson, d[i].inTransit, d[i].ownerId)
                        EXCEPT !.name = d[i].name]>> \o rest
             ELSE rest

\* loadPacks: what it leaves in the store's packs
IdsOf(d) == SelectSeq(AllIdOrder, LAMBDA i : i \in DOMAIN d)
loadPacks(d, userId) ==
    IF userId = NoUser THEN <<>> ELSE LoadFrom(d, IdsOf(d), userId)

\* packCounts.set(pack.id, (packCounts.get(pack.id) || 0) + 1)
CountOneNoIncrement(counts, id) ==
    IF \E k \in 1..Len(counts) : counts[k].id = id
    THEN counts
    ELSE Append(counts, [id |-> id, n |-> 1])
CountOne(counts, id) ==
    IF \E k \in 1..Len(counts) : counts[k].id = id
    THEN [k \in 1..Len(counts) |->
            IF counts[k].id = id
            THEN [counts[k] EXCEPT !.n = counts[k].n + 1]
            ELSE counts[k]]
    ELSE Append(counts, [id |-> id, n |-> 1])

\* the Map packCounts, as its entries in insertion order
PackCountsFirstOnly(selected, counts) ==
    IF selected = <<>> THEN counts ELSE CountOne(counts, Head(selected).id)
RECURSIVE PackCounts(_, _)
PackCounts(selected, counts) ==
    IF selected = <<>> THEN counts
    ELSE PackCounts(Tail(selected), CountOne(counts, Head(selected).id))

\* !(!packDoc.exists() || packDoc.data().ownerId !== userId)
ReadValidIgnoringOwner(doc, userId) == doc.exists
ReadValid(doc, userId) == doc.exists /\ doc.ownerId = userId

\* Math.max(0, packDoc.data().inPerson - numPicked)
NewQuantityUnclamped(inPerson, numPicked) == inPerson - numPicked
NewQuantity(inPerson, numPicked) == Max(0, inPerson - numPicked)

\* the commit of a transaction is accepted when no document it read was written since
CommitAcceptedUnchecked(c) == TRUE
CommitAccepted(c) == ~call[c].stale

\* the ids a running transaction of client c has read in its current attempt
ReadSet(cl, c) ==
    IF cl[c].pc = "read"
    THEN {cl[c].packCounts[k].id : k \in 1..(cl[c].i - 1)}
    ELSE IF cl[c].pc = "revert"
    THEN {cl[c].target} \cup {cl[c].packCounts[k].id : k \in 1..(cl[c].i - 1)}
    ELSE {}

\* a committed write to the documents ids, by writer: every other running
\* transaction that read one of them will be refused at its commit
MarkStale(cl, ids, writer) ==
    [c \in Clients |->
        IF c # writer /\ ReadSet(cl, c) \cap ids # {}
        THEN [cl[c] EXCEPT !.stale = TRUE]
        ELSE cl[c]]

\* transaction.update(docRef, { inPerson: newQuantity }) for every staged write
RECURSIVE ApplyUpdates(_, _)
ApplyUpdates(d, updates) ==
    IF updates = <<>> THEN d
    ELSE ApplyUpdates([d EXCEPT ![Head(updates).id].inPerson = Head(updates).newQuantity],
                      Tail(updates))

\* the call has returned (its promise resolved): the outcome and the argument are kept
Finished(c, outcome) ==
    [NoCall EXCEPT !.pc = "done", !.outcome = outcome,
                   !.selectedPacks = call[c].selectedPacks]

\* confirmSessionPicks up to the start of the transaction
StartConfirmSessionPicks(c, selected) ==
    IF auth[c] = NoUser
    THEN [NoCall EXCEPT !.pc = "done", !.outcome = "noUser"]
    ELSE [NoCall EXCEPT !.pc = "read", !.userId = auth[c],
                        !.selectedPacks = selected,
                        !.packCounts = PackCounts(selected, <<>>),
                        !.attempts = 1]

\* one pass of the READS loop: transaction.get, the check, the staged write
TxnRead(c) ==
    /\ call[c].pc = "read"
    /\ call[c].i <= Len(call[c].packCounts)
    /\ LET entry == call[c].packCounts[call[c].i]
           packDoc == db[entry.id]
       IN  IF ~ReadValid(packDoc, call[c].userId)
           THEN \* throw: the transaction is dropped and the catch logs the error
                call' = [call EXCEPT ![c] = Finished(c, "failed")]
           ELSE call' = [call EXCEPT
                    ![c].docsToUpdate =
                        Append(@, [id |-> entry.id,
                                   newQuantity |-> NewQuantity(packDoc.inPerson, entry.n)]),
                    ![c].i = @ + 1]
    /\ UNCHANGED <<histVars, db, auth, packs, sessionVars, confirmPc, draftVars, undone>>

\* the WRITES loop and the commit, accepted
TxnCommitInterleaved(c) ==
    /\ call[c].pc = "read"
    /\ Len(call[c].docsToUpdate) > 0
    /\ CommitAccepted(c)
    /\ db' = ApplyUpdates(db, call[c].docsToUpdate)
    /\ call' = [MarkStale(call, {call[c].docsToUpdate[k].id :
                                    k \in 1..Len(call[c].docsToUpdate)}, c)
                    EXCEPT ![c].pc = IF call[c].i > Len(call[c].packCounts)
                                     THEN "load" ELSE "read",
                           ![c].docsToUpdate = <<>>]
    /\ UNCHANGED <<histVars, auth, packs, sessionVars, confirmPc, draftVars, undone>>
TxnCommit(c) ==
    /\ call[c].pc = "read"
    /\ call[c].i > Len(call[c].packCounts)
    /\ CommitAccepted(c)
    /\ db' = ApplyUpdates(db, call[c].docsToUpdate)
    /\ call' = [MarkStale(call, {call[c].docsToUpdate[k].id :
                                    k \in 1..Len(call[c].docsToUpdate)}, c)
                    EXCEPT ![c].pc = "load", ![c].packCounts = <<>>, ![c].i = 1,
                           ![c].docsToUpdate = <<>>]
    /\ UNCHANGED <<histVars, auth, packs, sessionVars, confirmPc, draftVars, undone>>

\* the commit refused: the update function is run again on fresh reads
TxnRetry(c) ==
    /\ call[c].pc = "read"
    /\ call[c].i > Len(call[c].packCounts)
    /\ ~CommitAccepted(c)
    /\ call[c].attempts < MaxAttempts
    /\ call' = [call EXCEPT ![c].i = 1, ![c].docsToUpdate = <<>>,
                            ![c].stale = FALSE, ![c].attempts = @ + 1]
    /\ UNCHANGED <<histVars, db, auth, packs, sessionVars, confirmPc, draftVars, undone>>

\* the commit refused on the last attempt: runTransaction rejects, the catch logs
TxnGiveUp(c) ==
    /\ call[c].pc = "read"
    /\ call[c].i > Len(call[c].packCounts)
    /\ ~CommitAccepted(c)
    /\ call[c].attempts >= MaxAttempts
    /\ call' = [call EXCEPT ![c] = Finished(c, "failed")]
    /\ UNCHANGED <<histVars, db, auth, packs, sessionVars, confirmPc, draftVars, undone>>

\* the backend cannot be reached: runTransaction rejects, the catch logs
TxnUnavailable(c) ==
    /\ call[c].pc = "read"
    /\ call' = [call EXCEPT ![c] = Finished(c, "failed")]
    /\ UNCHANGED <<histVars, db, auth, packs, sessionVars, confirmPc, draftVars, undone>>

\* await get().loadPacks() after the transaction; packs is the store of client c1
LoadPacksAfterCommitShared(c) ==
    /\ call[c].pc = "load"
    /\ call' = [call EXCEPT ![c] = Finished(c, "committed")]
    /\ packs' = IF c = "c1" THEN loadPacks(db, auth[c]) ELSE packs
    /\ tempInventory' = packs'
    /\ UNCHANGED <<histVars, db, auth, players, numPacks, packsSelectedOrder,
                   confirmed, confirmPc, draftVars, undone>>
LoadPacksAfterCommit(c) ==
    /\ call[c].pc = "load"
    /\ call' = [call EXCEPT ![c] = Finished(c, "committed")]
    /\ packs' = IF c = "c1" THEN loadPacks(db, auth[c]) ELSE packs
    /\ UNCHANGED <<histVars, db, auth, sessionVars, confirmPc, draftVars, undone>>

\* the pick lists a caller can pass: up to MaxPicks packs, ids repeated or not
PickLists ==
    UNION { [1..n -> {[id |-> i] : i \in PackIds}] : n \in 0..MaxListLen }

\* confirmSessionPicks(selectedPacks) called on the inventory store
CallConfirmSessionPicks(c) ==
    /\ call[c].pc \in {"idle", "done"}
    /\ \E selected \in PickLists :
          call' = [call EXCEPT ![c] = StartConfirmSessionPicks(c, selected)]
    /\ UNCHANGED <<histVars, db, auth, packs, sessionVars, confirmPc, draftVars, undone>>

\* a document of the collection
Doc(n, t, o) ==
    [exists |-> TRUE, name |-> "n", inPerson |-> n, inTransit |-> t, ownerId |-> o]

\* the collection at the start: A is the user's; B is the user's, another
\* user's, or missing
InitRepo ==
    /\ \E a \in {Doc(n, MaxTransit, "u1") : n \in 0..MaxQty},
          b \in {NoDoc, Doc(MaxQty, MaxTransit, "u2")}
                  \cup {Doc(n, 0, "u1") : n \in 0..MaxQty} :
          db = [i \in PackIds |-> IF i = "A" THEN a ELSE b]
    /\ auth = [c \in Clients |-> "u1"]
    /\ packs = loadPacks(db, "u1")
    /\ call = [c \in Clients |-> NoCall]
    /\ InitNoSession
    /\ InitNoHistory

NextRepo ==
    \E c \in Clients :
        \/ CallConfirmSessionPicks(c)
        \/ TxnRead(c)
        \/ TxnCommit(c)
        \/ TxnRetry(c)
        \/ TxnGiveUp(c)
        \/ TxnUnavailable(c)
        \/ LoadPacksAfterCommit(c)

SpecRepo == InitRepo /\ [][NextRepo]_vars


(***************************************************************************)
(* confirmSession of the session store on top of confirmSessionPicks, with *)
(* the same user deleting packs from another tab (client c2).              *)
(***************************************************************************)
\* confirmSession up to its await
ConfirmSessionNoEmptyCheck ==
    /\ confirmPc = "idle"
    /\ call["c1"].pc \in {"idle", "done"}
    /\ call' = [call EXCEPT
                  !["c1"] = StartConfirmSessionPicks("c1", packsSelectedOrder)]
    /\ confirmPc' = "awaiting"
    /\ UNCHANGED <<histVars, db, auth, packs, sessionVars, draftVars, undone>>
ConfirmSession ==
    /\ confirmPc = "idle"
    /\ call["c1"].pc \in {"idle", "done"}
    /\ IF Len(packsSelectedOrder) = 0
       THEN UNCHANGED <<call, confirmPc>>
       ELSE /\ call' = [call EXCEPT
                          !["c1"] = StartConfirmSessionPicks("c1", packsSelectedOrder)]
            /\ confirmPc' = "awaiting"
    /\ UNCHANGED <<histVars, db, auth, packs, sessionVars, draftVars, undone>>

\* confirmSession after its await: confirmSessionPicks catches every error
\* itself, so the awaited promise always resolves and the catch is never entered
ConfirmSessionResumed ==
    /\ confirmPc = "awaiting"
    /\ call["c1"].pc = "done"
    /\ confirmed' = TRUE
    /\ confirmPc' = "idle"
    /\ UNCHANGED <<histVars, db, auth, packs, call, players, numPacks, packsSelectedOrder,
                   tempInventory, draftVars, undone>>

\* deletePack up to the answer of getDoc
DeletePackCheck(c) ==
    /\ call[c].pc = "idle"
    /\ auth[c] # NoUser
    /\ \E id \in PackIds :
          /\ db[id].exists /\ db[id].ownerId = auth[c]
          /\ call' = [call EXCEPT ![c] = [NoCall EXCEPT !.pc = "delete",
                                                       !.userId = auth[c],
                                                       !.target = id]]
    /\ UNCHANGED <<histVars, db, auth, packs, sessionVars, confirmPc, draftVars, undone>>

\* deletePack: deleteDoc and the removal from the local list
DeletePackDelete(c) ==
    /\ call[c].pc = "delete"
    /\ db' = [db EXCEPT ![call[c].target] = NoDoc]
    /\ call' = [MarkStale(call, {call[c].target}, c) EXCEPT ![c] = NoCall]
    /\ packs' = IF c = "c1"
                THEN SelectSeq(packs, LAMBDA p : p.id # call[c].target)
                ELSE packs
    /\ UNCHANGED <<histVars, auth, sessionVars, confirmPc, draftVars, undone>>

\* signOut and the auth listener of App: the store's packs are cleared
SignOut ==
    /\ auth["c1"] # NoUser
    /\ auth' = [auth EXCEPT !["c1"] = NoUser]
    /\ packs' = <<>>
    /\ UNCHANGED <<histVars, db, call, sessionVars, confirmPc, draftVars, undone>>

NextConfirm ==
    \/ InitializeSession
    \/ SelectPackForNextPlayer
    \/ ConfirmSession
    \/ ConfirmSessionResumed
    \/ TxnRead("c1")
    \/ TxnCommit("c1")
    \/ TxnRetry("c1")
    \/ TxnUnavailable("c1")
    \/ LoadPacksAfterCommit("c1")
    \/ DeletePackCheck("c2")
    \/ DeletePackDelete("c2")
    \/ SignOut

\* the user holds both packs, each with a unit to draft
InitConfirm ==
    /\ InitStore
    /\ Len(packs) = Cardinality(PackIds)
    /\ \A k \in 1..Len(packs) : packs[k].inPerson >= 1 /\ packs[k].inTransit = 0

SpecConfirm == InitConfirm /\ [][NextConfirm]_vars


(***************************************************************************)
(* The Draft page with its Confirm button (src/src/pages/Draft.tsx) on top *)
(* of the two stores: spins, undo, reset and the asynchronous confirm of   *)
(* one client.  An inventory of four packs lets a three-pack draft         *)
(* complete with a pack still to spin for.                                 *)
(***************************************************************************)
PageIds == {"A", "B", "C", "D"}

\* useInventoryStore.loading: true from the start of loadPacks to its end
inventoryLoading == call["c1"].pc = "load"

isDraftComplete == Len(packsSelectedOrder) = numPacks

\* the Spin button: disabled={!canSpin || inventoryLoading || buffer.length === 0};
\* the buffer holds packs whenever tempInventory does
SpinClick ==
    /\ ~inventoryLoading
    /\ Len(tempInventory) > 0
    /\ HandleSpin

\* the Confirm Session button and handleConfirm up to the await of confirmSession
HandleConfirm ==
    /\ ~confirmed
    /\ isDraftComplete
    /\ ~isConfirming
    /\ ~spinning
    /\ ConfirmSession

\* the session setup form is submitted and the Draft page is mounted afresh
StartDraft ==
    /\ confirmPc = "idle"
    /\ ~spinning
    /\ timeouts = 0
    /\ Len(packs) > 0
    /\ InitializeSession

NextPage ==
    \/ StartDraft
    \/ SpinClick
    \/ SpinFinished
    \/ PickTimeout
    \/ UndoClick
    \/ ResetClick
    \/ HandleConfirm
    \/ ConfirmSessionResumed
    \/ TxnRead("c1")
    \/ TxnCommit("c1")
    \/ TxnUnavailable("c1")
    \/ LoadPacksAfterCommit("c1")

\* the signed-in user holds the four packs, each with a unit to draft
InitPage ==
    /\ packs = <<Pack("A", 1, 0, "u1"), Pack("B", 1, 0, "u1"),
                 Pack("C", 1, 0, "u1"), Pack("D", 1, 0, "u1")>>
    /\ db = DbOver(PageIds, packs)
    /\ auth = [c \in Clients |-> "u1"]
    /\ call = [c \in Clients |-> NoCall]
    /\ InitNoSession
    /\ InitNoHistory

SpecPage == InitPage /\ [][NextPage]_vars

(***************************************************************************)
(* Draft history store (src/src/state/draftHistoryStore.ts): deleteDraft,  *)
(* one transaction that reads the history entry and the packs it names,    *)
(* adds the drafted units back and deletes the entry.                      *)
(***************************************************************************)
\* a document of the "drafts" collection: its owner and the players' packs
DraftDoc(userId, draftPlayers) ==
    [exists |-> TRUE, userId |-> userId, players |-> draftPlayers,
     restockComplete |-> FALSE]

\* what loadDrafts makes of a stored entry: { id: doc.id, ...doc.data() }
DraftEntry(draftId, doc) ==
    [id |-> draftId, userId |-> doc.userId, players |-> doc.players,
     restockComplete |-> doc.restockComplete]

\* for (const player of players) for (const pack of player.packs): the packs in order
RECURSIVE DraftedPacks(_)
DraftedPacks(draftPlayers) ==
    IF draftPlayers = <<>> THEN <<>>
    ELSE Head(draftPlayers).packs \o DraftedPacks(Tail(draftPlayers))

\* !(!draftDoc.exists() || draftDoc.data().userId !== user.uid)
DraftValidIgnoringUser(doc, userId) == doc.exists
DraftValid(doc, userId) == doc.exists /\ doc.userId = userId

\* newInPerson: count, or (packDoc.data().inPerson || 0) + count for the caller's pack
RevertQuantityCountOnly(packDoc, userId, count) == count
RevertQuantityOneUnit(packDoc, userId, count) ==
    IF packDoc.exists /\ packDoc.ownerId = userId
    THEN packDoc.inPerson + 1
    ELSE count
RevertQuantity(packDoc, userId, count) ==
    IF packDoc.exists /\ packDoc.ownerId = userId
    THEN packDoc.inPerson + count
    ELSE count

\* transaction.update needs the document to exist: the commit is refused otherwise
UpdatesApplicable(d, updates) ==
    \A k \in 1..Len(updates) : d[updates[k].id].exists

\* deleteDraft up to the start of the transaction
StartDeleteDraft(c, draftId, draftPlayers) ==
    IF auth[c] = NoUser
    THEN [NoCall EXCEPT !.pc = "done", !.outcome = "noUser"]
    ELSE [NoCall EXCEPT !.pc = "revertDraft", !.userId = auth[c],
                        !.target = draftId, !.players = draftPlayers,
                        !.packCounts = PackCounts(DraftedPacks(draftPlayers), <<>>),
                        !.attempts = 1]

\* the deleteDraft call has returned: the outcome and the arguments are kept
FinishedDraft(c, outcome) ==
    [NoCall EXCEPT !.pc = "done", !.outcome = outcome,
                   !.target = call[c].target, !.players = call[c].players,
                   !.userId = call[c].userId]

\* the entries the history page of client c lists: the local list of c1 (it
\* may have gone stale), the stored entries for the other client
ShownDrafts(c) ==
    IF c = "c1"
    THEN {localDrafts[k] : k \in 1..Len(localDrafts)}
    ELSE {DraftEntry(d, drafts[d]) :
            d \in {x \in DraftIds : drafts[x].exists}}

\* the Delete button of the history page: deleteDraft(draft.id, draft.players)
CallDeleteDraft(c) ==
    /\ call[c].pc \in {"idle", "done"}
    /\ \E draft \in ShownDrafts(c) :
          call' = [call EXCEPT ![c] = StartDeleteDraft(c, draft.id, draft.players)]
    /\ UNCHANGED <<db, auth, packs, histVars, sessionVars, confirmPc, draftVars, undone>>

\* transaction.get(draftDocRef) and the check of the entry
RevertReadDraft(c) ==
    /\ call[c].pc = "revertDraft"
    /\ IF ~DraftValid(drafts[call[c].target], call[c].userId)
       THEN call' = [call EXCEPT ![c] = FinishedDraft(c, "failed")]
       ELSE call' = [call EXCEPT ![c].pc = "revert", ![c].i = 1,
                                 ![c].docsToUpdate = <<>>]
    /\ UNCHANGED <<db, auth, packs, histVars, sessionVars, confirmPc, draftVars, undone>>

\* one pass of the loop over packCounts: transaction.get and the staged write
RevertReadPack(c) ==
    /\ call[c].pc = "revert"
    /\ call[c].i <= Len(call[c].packCounts)
    /\ LET entry == call[c].packCounts[call[c].i]
           packDoc == db[entry.id]
       IN  call' = [call EXCEPT
                ![c].docsToUpdate =
                    Append(@, [id |-> entry.id,
                               newQuantity |-> RevertQuantity(packDoc, call[c].userId,
                                                              entry.n)]),
                ![c].i = @ + 1]
    /\ UNCHANGED <<db, auth, packs, histVars, sessionVars, confirmPc, draftVars, undone>>

\* the updates, the delete of the entry and the commit, accepted
RevertCommit(c) ==
    /\ call[c].pc = "revert"
    /\ call[c].i > Len(call[c].packCounts)
    /\ CommitAccepted(c)
    /\ UpdatesApplicable(db, call[c].docsToUpdate)
    /\ db' = ApplyUpdates(db, call[c].docsToUpdate)
    /\ drafts' = [drafts EXCEPT ![call[c].target] = NoDoc]
    /\ call' = [MarkStale(call, {call[c].target} \cup
                                {call[c].docsToUpdate[k].id :
                                    k \in 1..Len(call[c].docsToUpdate)}, c)
                    EXCEPT ![c].pc = "revertLocal", ![c].packCounts = <<>>, ![c].i = 1,
                           ![c].docsToUpdate = <<>>]
    /\ UNCHANGED <<auth, packs, localDrafts, sessionVars, confirmPc, draftVars, undone>>

\* an update names a document that does not exist: the commit is refused,
\* runTransaction rejects and the catch logs the error
RevertUpdateRefused(c) ==
    /\ call[c].pc = "revert"
    /\ call[c].i > Len(call[c].packCounts)
    /\ CommitAccepted(c)
    /\ ~UpdatesApplicable(db, call[c].docsToUpdate)
    /\ call' = [call EXCEPT ![c] = FinishedDraft(c, "failed")]
    /\ UNCHANGED <<db, auth, packs, histVars, sessionVars, confirmPc, draftVars, undone>>

\* the commit refused for a conflicting write: the update function runs again
RevertRetry(c) ==
    /\ call[c].pc = "revert"
    /\ call[c].i > Len(call[c].packCounts)
    /\ ~CommitAccepted(c)
    /\ call[c].attempts < MaxAttempts
    /\ call' = [call EXCEPT ![c].pc = "revertDraft", ![c].i = 1,
                            ![c].docsToUpdate = <<>>,
                            ![c].stale = FALSE, ![c].attempts = @ + 1]
    /\ UNCHANGED <<db, auth, packs, histVars, sessionVars, confirmPc, draftVars, undone>>

\* the commit refused on the last attempt: runTransaction rejects, the catch logs
RevertGiveUp(c) ==
    /\ call[c].pc = "revert"
    /\ call[c].i > Len(call[c].packCounts)
    /\ ~CommitAccepted(c)
    /\ call[c].attempts >= MaxAttempts
    /\ call' = [call EXCEPT ![c] = FinishedDraft(c, "failed")]
    /\ UNCHANGED <<db, auth, packs, histVars, sessionVars, confirmPc, draftVars, undone>>

\* after the transaction: the entry leaves the local list and the inventory
\* store reloads; localDrafts and packs are the stores of client c1
RevertLocal(c) ==
    /\ call[c].pc = "revertLocal"
    /\ call' = [call EXCEPT ![c] = FinishedDraft(c, "committed")]
    /\ localDrafts' = IF c = "c1"
                      THEN SelectSeq(localDrafts, LAMBDA d : d.id # call[c].target)
                      ELSE localDrafts
    /\ packs' = IF c = "c1" THEN loadPacks(db, auth[c]) ELSE packs
    /\ UNCHANGED <<db, auth, drafts, sessionVars, confirmPc, draftVars, undone>>

\* the players of the recorded draft: pack A drafted twice, pack B maybe once
DraftPlayerLists ==
    { << [packs |-> <<[id |-> "A"]>>], [packs |-> <<[id |-> "A"]>>] >>,
      << [packs |-> <<[id |-> "A"], [id |-> "B"]>>], [packs |-> <<[id |-> "A"]>>] >> }

\* a draft was confirmed earlier; the packs it names may have been deleted since
InitHistory ==
    /\ \E a \in {NoDoc} \cup {Doc(n, 0, "u1") : n \in 0..MaxQty},
          b \in {NoDoc, Doc(1, MaxTransit, "u1"), Doc(MaxQty, 0, "u2")} :
          db = [i \in PackIds |-> IF i = "A" THEN a ELSE b]
    /\ auth = [c \in Clients |-> "u1"]
    /\ packs = loadPacks(db, "u1")
    /\ call = [c \in Clients |-> NoCall]
    /\ \E owner \in Users, ps \in DraftPlayerLists :
          /\ drafts = [d \in DraftIds |-> DraftDoc(owner, ps)]
          /\ localDrafts = <<DraftEntry("d1", DraftDoc(owner, ps))>>
    /\ InitNoSession

NextHistory ==
    \E c \in Clients :
        \/ CallDeleteDraft(c)
        \/ RevertReadDraft(c)
        \/ RevertReadPack(c)
        \/ RevertCommit(c)
        \/ RevertUpdateRefused(c)
        \/ RevertRetry(c)
        \/ RevertGiveUp(c)
        \/ RevertLocal(c)
        \/ DeletePackCheck(c)
        \/ DeletePackDelete(c)

SpecHistory == InitHistory /\ [][NextHistory]_vars

(***************************************************************************)
(* The inventory store's other operations (src/unnamed/part_001): addPack, *)
(* updatePack, deletePack and clearAll, called from the Inventory page     *)
(* (src/unnamed/part_004), next to confirmSessionPicks and deleteDraft.    *)
(***************************************************************************)
Names == {"n", "m"}
NewIds == {"N"}                  \* the ids addDoc can give a new document
InvIds == PackIds \cup NewIds

\* what the Inventory page passes to addPack: handleAdd clamps both counts at 0
\* and wants one of them positive; handleBulkImport takes the numbers of the
\* file and wants one of them positive
AddInputs ==
    { [name |-> nm, inPerson |-> n, inTransit |-> t] :
        nm \in Names, n \in (0 - MaxAdd)..MaxAdd, t \in (0 - MaxAdd)..MaxAdd }
AddAccepted(pack) == pack.inPerson > 0 \/ pack.inTransit > 0

\* getDocs(query(where ownerId == userId, where name == pack.name)): the ids found
RECURSIVE SameName(_, _, _, _)
SameName(d, ids, userId, name) ==
    IF ids = <<>> THEN <<>>
    ELSE LET i == Head(ids)
             rest == SameName(d, Tail(ids), userId, name)
         IN  IF d[i].exists /\ d[i].ownerId = userId /\ d[i].name = name
             THEN <<i>> \o rest
             ELSE rest

\* the write addPack prepares from the answer of the query: the update of
\* querySnapshot.docs[0], or the new document
AddWriteAlwaysNew(d, userId, pack) ==
    [id |-> "", name |-> pack.name, inPerson |-> pack.inPerson,
     inTransit |-> pack.inTransit]
AddWrite(d, userId, pack) ==
    LET found == SameName(d, IdsOf(d), userId, pack.name)
    IN  IF found # <<>>
        THEN [id |-> found[1], name |-> d[found[1]].name,
              inPerson |-> d[found[1]].inPerson + pack.inPerson,
              inTransit |-> d[found[1]].inTransit + pack.inTransit]
        ELSE [id |-> "", name |-> pack.name, inPerson |-> pack.inPerson,
              inTransit |-> pack.inTransit]

\* addPack up to the answer of the duplicate query
AddPackQuery(c) ==
    /\ call[c].pc \in {"idle", "done"}
    /\ auth[c] # NoUser
    /\ \E pack \in AddInputs :
          /\ AddAccepted(pack)
          /\ LET w == AddWrite(db, auth[c], pack)
             IN  /\ w.inPerson \in (0 - MaxAdd)..MaxStock
                 /\ w.inTransit \in (0 - MaxAdd)..MaxStock
                 /\ call' = [call EXCEPT ![c] =
                        [NoCall EXCEPT !.pc = "add", !.userId = auth[c],
                                       !.target = w.id,
                                       !.selectedPacks = <<pack>>,
                                       !.docsToUpdate = <<w>>]]
    /\ UNCHANGED <<db, auth, packs, histVars, sessionVars, confirmPc, draftVars, undone>>

\* addPack: updateDoc of the duplicate or addDoc, then loadPacks
AddPackWrite(c) ==
    /\ call[c].pc = "add"
    /\ LET w == call[c].docsToUpdate[1]
       IN  IF w.id # ""
           THEN IF db[w.id].exists
                THEN /\ db' = [db EXCEPT ![w.id].inPerson = w.inPerson,
                                         ![w.id].inTransit = w.inTransit]
                     /\ call' = [MarkStale(call, {w.id}, c) EXCEPT ![c] = NoCall]
                     /\ packs' = IF c = "c1" THEN loadPacks(db', auth[c]) ELSE packs
                ELSE \* updateDoc rejects: the catch logs, nothing is loaded
                     /\ call' = [call EXCEPT ![c] = NoCall]
                     /\ UNCHANGED <<db, packs>>
           ELSE \E id \in NewIds :
                  /\ ~db[id].exists
                  /\ db' = [db EXCEPT ![id] =
                              [exists |-> TRUE, name |-> w.name, inPerson |-> w.inPerson,
                               inTransit |-> w.inTransit, ownerId |-> call[c].userId]]
                  /\ call' = [MarkStale(call, {id}, c) EXCEPT ![c] = NoCall]
                  /\ packs' = IF c = "c1" THEN loadPacks(db', auth[c]) ELSE packs
    /\ UNCHANGED <<auth, histVars, sessionVars, confirmPc, draftVars, undone>>

\* the four count buttons of a pack on the Inventory page: the changed copy
\* of the listed pack that updatePack receives
UpdateInputs(pack) ==
    { [pack EXCEPT !.inPerson = pack.inPerson + 1],
      [pack EXCEPT !.inPerson = Max(0, pack.inPerson - 1)],
      [pack EXCEPT !.inTransit = pack.inTransit + 1],
      [pack EXCEPT !.inTransit = Max(0, pack.inTransit - 1)] }

\* updatePack: updateDoc with the fields of the copy, then loadPacks
UpdatePack ==
    /\ call["c1"].pc \in {"idle", "done"}
    /\ auth["c1"] # NoUser
    /\ \E k \in 1..Len(packs) : \E pack \in UpdateInputs(packs[k]) :
          /\ pack.ownerId = auth["c1"]
          /\ pack.inPerson <= MaxStock /\ pack.inTransit <= MaxStock
          /\ IF db[pack.id].exists
             THEN /\ db' = [db EXCEPT ![pack.id].name = pack.name,
                                      ![pack.id].inPerson = pack.inPerson,
                                      ![pack.id].inTransit = pack.inTransit]
                  /\ call' = MarkStale(call, {pack.id}, "c1")
                  /\ packs' = loadPacks(db', auth["c1"])
             ELSE UNCHANGED <<db, call, packs>>
    /\ UNCHANGED <<auth, histVars, sessionVars, confirmPc, draftVars, undone>>

\* clearAll: the batch delete of the user's documents, then set({ packs: [] })
ClearAll ==
    /\ call["c1"].pc \in {"idle", "done"}
    /\ auth["c1"] # NoUser
    /\ LET mine == {id \in DOMAIN db : db[id].exists /\ db[id].ownerId = auth["c1"]}
       IN  /\ db' = [id \in DOMAIN db |-> IF id \in mine THEN NoDoc ELSE db[id]]
           /\ call' = MarkStale(call, mine, "c1")
    /\ packs' = <<>>
    /\ UNCHANGED <<auth, histVars, sessionVars, confirmPc, draftVars, undone>>

\* the user's pack A; one recorded draft of it
InitInventory ==
    /\ \E a \in {Doc(n, 0, "u1") : n \in 0..1} :
          db = [i \in InvIds |-> IF i = "A" THEN a ELSE NoDoc]
    /\ auth = [c \in Clients |-> "u1"]
    /\ packs = loadPacks(db, "u1")
    /\ call = [c \in Clients |-> NoCall]
    /\ LET ps == << [packs |-> <<[id |-> "A"]>>] >>
       IN  /\ drafts = [d \in DraftIds |-> DraftDoc("u1", ps)]
           /\ localDrafts = <<DraftEntry("d1", DraftDoc("u1", ps))>>
    /\ InitNoSession

NextInventory ==
    \/ AddPackQuery("c1")
    \/ AddPackWrite("c1")
    \/ UpdatePack
    \/ ClearAll
    \/ DeletePackCheck("c2")
    \/ DeletePackDelete("c2")
    \/ CallConfirmSessionPicks("c1")
    \/ TxnRead("c1")
    \/ TxnCommit("c1")
    \/ TxnRetry("c1")
    \/ LoadPacksAfterCommit("c1")
    \/ CallDeleteDraft("c1")
    \/ RevertReadDraft("c1")
    \/ RevertReadPack("c1")
    \/ RevertCommit("c1")
    \/ RevertUpdateRefused("c1")
    \/ RevertRetry("c1")
    \/ RevertLocal("c1")

SpecInventory == InitInventory /\ [][NextInventory]_vars

(***************************************************************************)
(* A session next to the inventory it was started from: the session        *)
(* store's functions, its confirm, and the same client's inventory         *)
(* operations changing the inventory store meanwhile.                      *)
(***************************************************************************)
NextSnapshot ==
    \/ InitializeSession
    \/ SelectPackForNextPlayer
    \/ UndoLastPick
    \/ ResetSession
    \/ ConfirmSession
    \/ ConfirmSessionResumed
    \/ TxnRead("c1")
    \/ TxnCommit("c1")
    \/ LoadPacksAfterCommit("c1")
    \/ UpdatePack
    \/ DeletePackCheck("c1")
    \/ DeletePackDelete("c1")
    \/ ClearAll

SpecSnapshot == InitInventory /\ [][NextSnapshot]_vars

(***************************************************************************)
(* Properties of the session store and of the Draft page.                  *)
(***************************************************************************)
\* the entries of order at the 0-based positions i with i mod n = k - 1, in order
RoundRobinSlice(order, n, k) ==
    LET count == Cardinality({i \in 1..Len(order) : (i - 1) % n = k - 1})
    IN  [j \in 1..count |-> order[(j - 1) * n + k]]

\* C5: after any sequence of selectPackForNextPlayer, undoLastPick and
\* resetSession calls on a session with n players, player k's selectedPacks is
\* the subsequence of packsSelectedOrder at the positions i with i mod n = k,
\* also after an undone pick was replaced by another pack.
C5_RoundRobin ==
    \A k \in 1..Len(players) :
        players[k].selectedPacks =
            RoundRobinSlice(packsSelectedOrder, Len(players), k)

\* a pick was undone and another pack was picked in its place, two players, three picks
C5_Witness ==
    /\ Len(players) = 2
    /\ Len(packsSelectedOrder) = 3
    /\ undone.pos = 3
    /\ packsSelectedOrder[3].id # undone.id
    /\ Len(players[1].selectedPacks) = 2

\* C6: from every unconfirmed session state and for every pack picked from it
\* (an entry of tempInventory with a unit left), selectPackForNextPlayer(pack)
\* followed by undoLastPick restores tempInventory (entries, counts, order),
\* packsSelectedOrder and every player's selectedPacks.
C6_UndoInverse ==
    (Len(players) > 0 /\ ~confirmed) =>
        \A k \in 1..Len(tempInventory) :
            tempInventory[k].inPerson > 0 =>
                undoLastPick(selectPackForNextPlayer(Session, tempInventory[k]))
                    = Session

\* the pool the specification calls eligible: the entries with inPerson > 0
Eligible(inv) == SelectSeq(inv, LAMBDA p : p.inPerson > 0)

RECURSIVE SumInPerson(_)
SumInPerson(ps) ==
    IF ps = <<>> THEN 0 ELSE Head(ps).inPerson + SumInPerson(Tail(ps))

\* every pack the Draft page's selection can return in the current state
PickOutcomes ==
    LET ps == availablePacks(tempInventory, packsSelectedOrder)
    IN  { pickWeightedRandomPack(ps, confirmed, u, v) :
            u \in WeightDraws(ps), v \in IndexDraws(ps) }

\* C7: the selection returns none when the total weight of the eligible pool
\* is 0, and never returns a pack whose inPerson in tempInventory is <= 0.
C7_NoNonPositiveWeight ==
    /\ SumInPerson(Eligible(tempInventory)) = 0 => PickOutcomes = {Null}
    /\ \A p \in PickOutcomes : p # Null => p.inPerson > 0

\* the ids whose last unit (inPerson = 1, inTransit = 0) has been selected
Depleted ==
    { packsSelectedOrder[k].id : k \in
        { j \in 1..Len(packsSelectedOrder) :
            /\ packsSelectedOrder[j].inPerson = 1
            /\ packsSelectedOrder[j].inTransit = 0 } }

\* C8: a pack whose last unit has been selected is no longer in tempInventory
\* and is not offered again; when no other pack has positive weight the
\* selection returns none.
C8_UnitDepletion ==
    \A i \in Depleted :
        /\ ~HasId(tempInventory, i)
        /\ \A p \in PickOutcomes : p.id # i
        /\ Eligible(tempInventory) = <<>> => PickOutcomes = {Null}

\* C9: a pack is eligible as long as its inPerson in tempInventory is > 0,
\* whether or not it was already selected in this session.
C9_EligibleWhilePositive ==
    ~confirmed =>
        \A k \in 1..Len(tempInventory) :
            tempInventory[k].inPerson > 0 => tempInventory[k] \in PickOutcomes

\* the pack of ps whose cumulative inPerson interval contains r
RECURSIVE IntervalPack(_, _)
IntervalPack(ps, r) ==
    IF r < Head(ps).inPerson THEN Head(ps)
    ELSE IntervalPack(Tail(ps), r - Head(ps).inPerson)

\* C10: for a draw r with 0 <= r < W, W the sum of the eligible packs'
\* inPerson, the selection returns the pack whose cumulative-weight interval
\* contains r.
C10_CumulativeInterval ==
    ~confirmed =>
        LET pool == Eligible(tempInventory)
            ps == availablePacks(tempInventory, packsSelectedOrder)
        IN  \A r \in 0..(SumInPerson(pool) - 1), v \in IndexDraws(ps) :
                pickWeightedRandomPack(ps, confirmed, r, v) = IntervalPack(pool, r)

(***************************************************************************)
(* Properties of confirmSessionPicks.                                      *)
(***************************************************************************)
\* the ids of the pick list of the running call of client c
CallIds(c) == {call[c].selectedPacks[k].id : k \in 1..Len(call[c].selectedPacks)}

\* occurrences of id in the pick list of the running call of client c
Occurrences(c, id) ==
    Cardinality({k \in 1..Len(call[c].selectedPacks) : call[c].selectedPacks[k].id = id})

\* client c takes a step of its running transaction
TxnStep(c) ==
    /\ call[c].pc = "read"
    /\ <<call[c].pc, call[c].i, call[c].attempts>>
          # <<call'[c].pc, call'[c].i, call'[c].attempts>>

\* the step is the accepted commit of the transaction of client c
Commits(c) == call[c].pc = "read" /\ call'[c].pc = "load"

\* a document the call of client c may not touch: missing, or another owner's
Foreign(c, id) == ~db[id].exists \/ db[id].ownerId # call[c].userId

\* C1: confirmSessionPicks is all-or-nothing.  While a pack id of the call is
\* missing or owned by someone else, no step of the call changes the stored
\* documents, the valid packs of the same call included; reading such a
\* document ends the call as failed; only the accepted commit writes at all.
C1_AllOrNothing ==
    [][\A c \in Clients :
          TxnStep(c) =>
            /\ (\E id \in CallIds(c) : Foreign(c, id)) => (db' = db /\ ~Commits(c))
            /\ ~Commits(c) => db' = db
            /\ ( /\ call[c].i <= Len(call[c].packCounts)
                 /\ Foreign(c, call[c].packCounts[call[c].i].id)
                 /\ call'[c].attempts = call[c].attempts )
               => (call'[c].pc = "done" /\ call'[c].outcome = "failed")
      ]_vars

\* a call naming the user's pack A and another user's pack B has failed,
\* and A still holds all its units
C1_Witness ==
    /\ call["c1"].outcome = "failed"
    /\ call["c1"].selectedPacks = <<[id |-> "A"], [id |-> "B"]>>
    /\ db["B"].exists /\ db["B"].ownerId = "u2"
    /\ db["A"].inPerson = MaxQty
    /\ call["c2"].pc = "idle"

\* C2: under concurrent confirmSessionPicks calls every committed write is the
\* value computed from the stored inPerson at the commit (a transaction whose
\* read was overwritten runs again or fails), and no stored inPerson is below 0.
C2_NoStaleWrite ==
    [][ /\ \A id \in PackIds : db'[id].exists => db'[id].inPerson >= 0
        /\ \A c \in Clients :
              Commits(c) =>
                \A k \in 1..Len(call[c].docsToUpdate) :
                    LET w == call[c].docsToUpdate[k]
                    IN  w.newQuantity =
                          Max(0, db[w.id].inPerson - Occurrences(c, w.id))
      ]_vars

\* the transaction of c1 was refused once, ran again on the lowered value and
\* committed: two units asked of A, none left, none owed
C2_Witness ==
    /\ call["c1"].pc = "load"
    /\ call["c1"].attempts = 2
    /\ call["c1"].selectedPacks = <<[id |-> "A"], [id |-> "A"]>>
    /\ db["A"].inPerson = 0

\* C4: the accepted commit sets the inPerson of each referenced pack to
\* max(0, inPerson - count), count being the occurrences of its id in the pick
\* list, and changes nothing else: not the other packs, not inTransit, name
\* or ownerId.
C4_CommitEffect ==
    [][\A c \in Clients :
          Commits(c) =>
            \A id \in PackIds :
                db'[id] =
                    IF id \in CallIds(c)
                    THEN [db[id] EXCEPT
                            !.inPerson = Max(0, db[id].inPerson - Occurrences(c, id))]
                    ELSE db[id]
      ]_vars

\* C4 witness: a commit of two picks of B has been written (B down to 0), A, which
\* was not picked, still holds MaxQty units
C4_Witness ==
    /\ call["c1"].pc = "load"
    /\ call["c1"].attempts = 1
    /\ call["c1"].selectedPacks = <<[id |-> "B"], [id |-> "B"]>>
    /\ db["B"].inPerson = 0
    /\ db["A"].inPerson = MaxQty
    /\ call["c2"].pc = "idle"

\* C3: confirmSession sets confirmed only when the confirmSessionPicks
\* transaction committed; when it failed (missing pack, permission, conflict,
\* connectivity, no user) confirmed, players, packsSelectedOrder and
\* tempInventory are as before the call.
C3_ConfirmedOnlyOnCommit ==
    [][ (confirmPc = "awaiting" /\ confirmPc' = "idle") =>
            IF call["c1"].outcome = "committed"
            THEN confirmed'
            ELSE UNCHANGED <<confirmed, players, packsSelectedOrder, tempInventory>>
      ]_vars

(***************************************************************************)
(* Properties of the session on the Draft page.                            *)
(***************************************************************************)
\* C11: resetSession keeps the players list (length, ids, names, order), empties
\* every player's selectedPacks and packsSelectedOrder, sets confirmed to false
\* and replaces tempInventory with the inventory store's current packs.
C11_ResetKeepsRoster ==
    [][ResetClick =>
          /\ Len(players') = Len(players)
          /\ \A k \in 1..Len(players) :
                /\ players'[k].id = players[k].id
                /\ players'[k].name = players[k].name
                /\ players'[k].selectedPacks = <<>>
          /\ packsSelectedOrder' = <<>>
          /\ confirmed' = FALSE
          /\ tempInventory' = packs
          /\ numPacks' = numPacks
      ]_vars

\* a confirmed draft was reset after the store reloaded its packs: the session
\* holds the reloaded inventory (A down to 0), not the one it started from
C11_Witness ==
    /\ undone = AfterReset
    /\ call["c1"].outcome = "committed"
    /\ Len(players) = 1
    /\ packsSelectedOrder = <<>>
    /\ ~confirmed
    /\ tempInventory = packs
    /\ packs[1].inPerson = 0

\* C12: once confirmed is true no step changes players, packsSelectedOrder or
\* tempInventory, and confirmed stays true, except a step that starts a new
\* session (initializeSession or resetSession: the picks emptied, the inventory
\* snapshot taken again).
C12_ConfirmedImmutable ==
    [][ confirmed =>
            \/ UNCHANGED <<players, packsSelectedOrder, tempInventory, confirmed>>
            \/ /\ packsSelectedOrder' = <<>>
               /\ tempInventory' = packs
               /\ ~confirmed'
      ]_vars

\* C13: while a confirmSession request is in flight no step changes the
\* session's picks: players, packsSelectedOrder and tempInventory stay as they
\* are until the request has resolved, and no second request is started.
C13_SingleFlightConfirm ==
    [][ confirmPc = "awaiting" =>
            /\ UNCHANGED <<players, packsSelectedOrder, tempInventory>>
            /\ (call'["c1"].attempts = call["c1"].attempts \/ call'["c1"].pc # "read")
      ]_vars

(***************************************************************************)
(* Properties of deleteDraft.                                              *)
(***************************************************************************)
\* the pack ids the draft of the running deleteDraft call of client c names
DraftedIds(c) ==
    {DraftedPacks(call[c].players)[k].id : k \in 1..Len(DraftedPacks(call[c].players))}

\* occurrences of id across all players' packs of that draft
CountDrafted(c, id) == CountId(DraftedPacks(call[c].players), id)

\* client c takes a step of its running deleteDraft transaction
RevertStep(c) ==
    /\ call[c].pc \in {"revertDraft", "revert"}
    /\ <<call[c].pc, call[c].i, call[c].attempts>>
          # <<call'[c].pc, call'[c].i, call'[c].attempts>>

\* the step is the accepted commit of the deleteDraft transaction of client c
RevertCommits(c) == call[c].pc = "revert" /\ call'[c].pc = "revertLocal"

\* C14: a deleteDraft whose draft names a pack that was deleted since, and whose
\* transaction meets no conflicting write, commits, and the missing pack exists
\* afterwards with inPerson equal to the number of times it was drafted.
C14_RevertRecreatesMissing ==
    [][\A c \in Clients :
          ( /\ call[c].pc = "revert"
            /\ call'[c].pc \notin {"revert", "revertDraft"}
            /\ ~call[c].stale
            /\ \E id \in DraftedIds(c) : ~db[id].exists )
          => /\ RevertCommits(c)
             /\ \A id \in DraftedIds(c) :
                   ~db[id].exists =>
                       /\ db'[id].exists
                       /\ db'[id].inPerson = CountDrafted(c, id)
      ]_vars

\* C15: deleteDraft is one atomic transaction.  A step of it that is not the
\* accepted commit changes neither a pack nor the history entry; reading an
\* entry that is missing or another user's ends the call as failed; the commit
\* writes the packs and deletes the entry together; the local drafts list
\* changes only in the step after a commit.
C15_DeleteDraftAtomic ==
    [][\A c \in Clients :
          /\ RevertStep(c) =>
                /\ ~RevertCommits(c) =>
                        (db' = db /\ drafts' = drafts /\ localDrafts' = localDrafts)
                /\ ( /\ call[c].pc = "revertDraft"
                     /\ \/ ~drafts[call[c].target].exists
                        \/ drafts[call[c].target].userId # call[c].userId )
                   => (call'[c].pc = "done" /\ call'[c].outcome = "failed")
                /\ RevertCommits(c) =>
                        /\ ~drafts'[call[c].target].exists
                        /\ localDrafts' = localDrafts
          /\ localDrafts' # localDrafts => (call[c].pc = "revertLocal" \/ c # "c1")
          /\ (call'[c].outcome = "failed" /\ call[c].outcome # "failed") =>
                (db' = db /\ drafts' = drafts /\ localDrafts' = localDrafts)
      ]_vars

\* the user's deleteDraft of another user's entry has failed: the entry is
\* stored, the local list holds it, pack A has the units it had
C15_Witness ==
    /\ call["c1"].outcome = "failed"
    /\ call["c1"].target = "d1"
    /\ drafts["d1"].exists /\ drafts["d1"].userId = "u2"
    /\ Len(localDrafts) = 1
    /\ db["A"].exists /\ db["A"].inPerson = MaxQty
    /\ call["c2"].pc = "idle"

\* C16: the accepted commit of deleteDraft adds, for every drafted pack id that
\* exists and is the caller's, the number of occurrences of the id across all
\* players' packs to inPerson, and deletes the history entry; the step after it
\* removes the entry from the local drafts list.
C16_RevertAddsBack ==
    [][\A c \in Clients :
          /\ RevertCommits(c) =>
                /\ \A id \in DraftedIds(c) :
                      (db[id].exists /\ db[id].ownerId = call[c].userId) =>
                          db'[id].inPerson = db[id].inPerson + CountDrafted(c, id)
                /\ \A id \in DOMAIN db : id \notin DraftedIds(c) => db'[id] = db[id]
                /\ ~drafts'[call[c].target].exists
          /\ (call["c1"].pc = "revertLocal" /\ call'["c1"].pc = "done") =>
                /\ \A k \in 1..Len(localDrafts') :
                      localDrafts'[k].id # call["c1"].target
                /\ call'["c1"].outcome = "committed"
      ]_vars

\* a draft with pack A drafted twice and pack B once was deleted: the entry is
\* gone from storage and from the list, A holds two more units, B one more
C16_Witness ==
    /\ call["c1"].outcome = "committed"
    /\ call["c1"].target = "d1"
    /\ ~drafts["d1"].exists
    /\ localDrafts = <<>>
    /\ db["A"].exists /\ db["A"].inPerson = MaxQty + 2
    /\ db["B"].exists /\ db["B"].inPerson = 2
    /\ Len(packs) = 2 /\ packs[1].inPerson = MaxQty + 2

(***************************************************************************)
(* Properties of the stored inventory.                                     *)
(***************************************************************************)
\* C17: every stored pack has inPerson >= 0 and inTransit >= 0 in every
\* reachable state, whatever the sequence and interleaving of add, update,
\* delete, clearAll, confirmSessionPicks and deleteDraft.
C17_StoredCountsNonNegative ==
    \A id \in DOMAIN db :
        db[id].exists => (db[id].inPerson >= 0 /\ db[id].inTransit >= 0)

\* C20: the write of addPack creates a new record with a fresh id that carries
\* the name and counts passed, and leaves every existing record as it was,
\* also when a pack of the same name and owner exists.
C20_AddNeverMerges ==
    [][ (call["c1"].pc = "add" /\ call'["c1"].pc = "idle" /\ db' # db) =>
            LET pack == call["c1"].selectedPacks[1]
            IN  /\ \A id \in DOMAIN db : db[id].exists => db'[id] = db[id]
                /\ \E id \in DOMAIN db :
                      /\ ~db[id].exists
                      /\ db'[id].exists
                      /\ db'[id].name = pack.name
                      /\ db'[id].inPerson = pack.inPerson
                      /\ db'[id].inTransit = pack.inTransit
      ]_vars

C19_NoPartialPersist ==
    [][ /\ sessionVars' # sessionVars => (db' = db /\ drafts' = drafts)
        /\ (confirmPc = "idle" /\ confirmPc' = "awaiting") =>
              (db' = db /\ call'["c1"].selectedPacks = packsSelectedOrder)
        /\ (confirmPc = "awaiting" /\ call["c1"].pc = "read" /\ db' # db) =>
              /\ Commits("c1")
              /\ \A id \in DOMAIN db :
                    db'[id] =
                        IF HasId(call["c1"].selectedPacks, id)
                        THEN [db[id] EXCEPT !.inPerson =
                                Max(0, @ - CountId(call["c1"].selectedPacks, id))]
                        ELSE db[id]
      ]_vars

\* a session of two picks of pack A was confirmed: the commit took both units
\* at once, the inventory store has not reloaded yet
C19_Witness ==
    /\ confirmPc = "awaiting"
    /\ call["c1"].pc = "load"
    /\ Len(call["c1"].selectedPacks) = 2
    /\ db["A"].exists /\ db["A"].inPerson = 0
    /\ Len(packs) = 1 /\ packs[1].inPerson = 2

(***************************************************************************)
(* updatePack and deletePack of the inventory store (src/unnamed/part_001) *)
(* called with any pack or id, by a signed-in or signed-out client: the    *)
(* checks that come before their writes.                                   *)
(***************************************************************************)
\* the Pack objects a caller can pass to updatePack: any id of the
\* collection, any owner, small counts
UpdateArgs ==
    { Pack(i, n, t, o) : i \in PackIds, n \in 0..1, t \in 0..1, o \in Users }

\* !(!userId || pack.ownerId !== userId)
updatePackPermittedAnyOwner(userId, pack) == userId # NoUser
updatePackPermitted(userId, pack) == userId # NoUser /\ pack.ownerId = userId

\* the updatePack call has returned; its argument is kept
UpdateFinished(outcome, pack) ==
    [NoCall EXCEPT !.pc = "done", !.outcome = outcome, !.userId = auth["c1"],
                   !.target = pack.id, !.selectedPacks = <<pack>>]

\* updatePack(pack): the check, updateDoc with the fields of pack other than
\* id and ownerId, then loadPacks
UpdatePackCall ==
    /\ call["c1"].pc \in {"idle", "done"}
    /\ \E pack \in UpdateArgs :
          IF ~updatePackPermitted(auth["c1"], pack)
          THEN /\ call' = [call EXCEPT !["c1"] = UpdateFinished("updateDenied", pack)]
               /\ UNCHANGED <<db, packs>>
          ELSE IF db[pack.id].exists
          THEN /\ db' = [db EXCEPT ![pack.id].name = pack.name,
                                   ![pack.id].inPerson = pack.inPerson,
                                   ![pack.id].inTransit = pack.inTransit]
               /\ call' = [MarkStale(call, {pack.id}, "c1")
                              EXCEPT !["c1"] = UpdateFinished("updated", pack)]
               /\ packs' = loadPacks(db', auth["c1"])
          ELSE \* updateDoc rejects for a missing document: the catch logs
               /\ call' = [call EXCEPT !["c1"] = UpdateFinished("updateFailed", pack)]
               /\ UNCHANGED <<db, packs>>
    /\ UNCHANGED <<auth, histVars, sessionVars, confirmPc, draftVars, undone>>

\* docSnap.exists() && docSnap.data().ownerId === userId
deletePackPermittedAnyOwner(packDoc, userId) == packDoc.exists
deletePackPermitted(packDoc, userId) == packDoc.exists /\ packDoc.ownerId = userId

\* the deletePack call has returned without deleting; its argument is kept
DeleteFinished(c, outcome, id) ==
    [NoCall EXCEPT !.pc = "done", !.outcome = outcome, !.userId = auth[c],
                   !.target = id]

\* deletePack(id) up to the answer of getDoc and the check on it
DeletePackCall(c) ==
    /\ call[c].pc \in {"idle", "done"}
    /\ \E id \in PackIds :
          call' = [call EXCEPT ![c] =
                      IF auth[c] = NoUser
                      THEN DeleteFinished(c, "noUser", id)
                      ELSE IF deletePackPermitted(db[id], auth[c])
                      THEN [NoCall EXCEPT !.pc = "delete", !.userId = auth[c],
                                          !.target = id]
                      ELSE DeleteFinished(c, "deleteDenied", id)]
    /\ UNCHANGED <<histVars, db, auth, packs, sessionVars, confirmPc, draftVars, undone>>

\* deleteDoc rejects (the backend is unreachable or refuses): the catch logs
DeletePackRejected(c) ==
    /\ call[c].pc = "delete"
    /\ call' = [call EXCEPT ![c] =
                  [NoCall EXCEPT !.pc = "done", !.outcome = "deleteFailed",
                                 !.userId = call[c].userId,
                                 !.target = call[c].target]]
    /\ UNCHANGED <<histVars, db, auth, packs, sessionVars, confirmPc, draftVars, undone>>

\* pack A is the user's; pack B is missing or another user's
InitOwner ==
    /\ \E a \in {Doc(n, 0, "u1") : n \in 0..1},
          b \in {NoDoc, Doc(1, 0, "u2")} :
          db = [i \in PackIds |-> IF i = "A" THEN a ELSE b]
    /\ auth = [c \in Clients |-> "u1"]
    /\ packs = loadPacks(db, "u1")
    /\ call = [c \in Clients |-> NoCall]
    /\ InitNoSession
    /\ InitNoHistory

NextOwner ==
    \/ UpdatePackCall
    \/ SignOut
    \/ \E c \in Clients :
          \/ DeletePackCall(c)
          \/ DeletePackDelete(c)
          \/ DeletePackRejected(c)

SpecOwner == InitOwner /\ [][NextOwner]_vars

(***************************************************************************)
(* Properties of updatePack and deletePack.                                *)
(***************************************************************************)
\* an updatePack call of client c1 returns in this step
UpdateReturns ==
    /\ call'["c1"] # call["c1"]
    /\ call'["c1"].outcome \in {"updateDenied", "updated", "updateFailed"}

\* C21: an updatePack(pack) call by a client that is signed out, or whose
\* user is not pack.ownerId, writes nothing: the stored documents and the
\* local packs list are the same after the call as before it.
C21_UpdateDeniedWritesNothing ==
    [][ (UpdateReturns /\ (auth["c1"] = NoUser
                           \/ call'["c1"].selectedPacks[1].ownerId # auth["c1"]))
        => (db' = db /\ packs' = packs /\ call'["c1"].outcome = "updateDenied") ]_vars

\* C21 witness: a signed-in user's updatePack of a stored pack, with
\* another user's ownerId in the argument, has been refused
C21_Witness ==
    /\ call["c1"].outcome = "updateDenied"
    /\ auth["c1"] = "u1"
    /\ call["c1"].selectedPacks[1].ownerId = "u2"
    /\ db[call["c1"].target].exists
    /\ db[call["c1"].target].inPerson # call["c1"].selectedPacks[1].inPerson

\* C22: deletePack(id) deletes the stored document only when it exists and
\* its ownerId is the caller; the pack leaves the local packs list only in
\* the step in which the backend delete has succeeded; a call that is
\* refused by the check, or whose deleteDoc fails, changes neither the
\* documents nor the local list.
C22_DeleteCheckedThenLocal ==
    [][ /\ \A id \in PackIds :
              (db[id].exists /\ ~db'[id].exists)
              => \E c \in Clients : /\ call[c].pc = "delete"
                                    /\ call[c].target = id
                                    /\ db[id].ownerId = call[c].userId
        /\ (call["c1"].pc = "delete" /\ call'["c1"] # call["c1"] /\ packs' # packs)
              => /\ ~db'[call["c1"].target].exists
                 /\ packs' = SelectSeq(packs, LAMBDA p : p.id # call["c1"].target)
        /\ \A c \in Clients :
              (call'[c] # call[c]
               /\ (call'[c].pc = "delete"
                   \/ call'[c].outcome \in {"deleteDenied", "deleteFailed", "noUser"}))
              => (db' = db /\ packs' = packs) ]_vars

\* C22 witness: one delete of the user's pack has gone through and left the
\* local list, and a delete of another user's pack has been refused
C22_Witness ==
    /\ ~db["A"].exists
    /\ ~HasId(packs, "A")
    /\ auth["c1"] = "u1"
    /\ call["c1"] = NoCall
    /\ call["c2"].outcome = "deleteDenied"
    /\ call["c2"].target = "B"
    /\ db["B"].exists

(***************************************************************************)
(* Properties of confirmSession on an empty session.                       *)
(***************************************************************************)
\* C23: confirmSession called while packsSelectedOrder is empty does
\* nothing: no confirmSessionPicks call is started, the stored documents are
\* not written by this client and confirmed does not become true.
C23_EmptyConfirmNoOp ==
    [][ (Len(packsSelectedOrder) = 0 /\ confirmPc = "idle")
        => /\ confirmPc' = "idle"
           /\ call'["c1"] = call["c1"]
           /\ (confirmed' => confirmed)
           /\ (db' = db \/ call["c2"].pc = "delete") ]_vars

\* C23 witness: an initialized session without picks, on which confirmSession
\* can be called and nothing has been started
C23_Witness ==
    /\ Len(players) > 0
    /\ Len(packsSelectedOrder) = 0
    /\ Len(tempInventory) > 0
    /\ confirmPc = "idle"
    /\ ~confirmed
    /\ call["c1"] = NoCall

(***************************************************************************)
(* The start of a session: the setup form (src/src/pages/SessionSetup.tsx) *)
(* and initializeSession of the session store called with any player       *)
(* count.                                                                  *)
(***************************************************************************)
DefaultPlayers == 4

\* what Number(numPlayersInput) can be: not a number, negative, zero, positive
SetupInputs == {NaN, Num(0 - 1), Num(0), Num(1), Num(MaxPlayers)}

\* Math.max(1, Number(numPlayersInput) || 4)
finalNumPlayers(v) ==
    Max(1, IF v.tag = "number" /\ v.val # 0 THEN v.val ELSE DefaultPlayers)

\* handleSubmit of the setup form; the Start button needs packs.length > 0
HandleSubmit ==
    /\ Len(packs) > 0
    /\ \E v \in SetupInputs, names \in PlayerNameLists :
          SetSession(initializeSession(finalNumPlayers(v), names, packs))
    /\ undone' = NoUndo
    /\ UNCHANGED <<histVars, packs, confirmPc, draftVars, repoVars>>

\* initializeSession(numPlayers, playerNames) called on the store: the loop
\* `for (i = 0; i < numPlayers; i++)` builds no player for numPlayers < 1
InitializeSessionCall ==
    /\ \E n \in 0..MaxPlayers, names \in PlayerNameLists :
          SetSession(initializeSession(n, names, packs))
    /\ undone' = NoUndo
    /\ UNCHANGED <<histVars, packs, confirmPc, draftVars, repoVars>>

NextSetup ==
    \/ HandleSubmit
    \/ InitializeSessionCall
    \/ SelectPackForNextPlayer
    \/ UndoLastPick
    \/ ResetSession

SpecSetup == InitStore /\ [][NextSetup]_vars

\* C24: initializeSession validates playerCount >= 1, so a session (its
\* tempInventory snapshot taken) always has at least one player and the
\* pick index length % players.length is a position of players.
C24_PlayerCountValidated ==
    Len(tempInventory) > 0
        => /\ Len(players) >= 1
           /\ SelectPlayerIndex(Len(packsSelectedOrder), Len(players))
                 \in 1..Len(players)

(***************************************************************************)
(* The frame of a pick in tempInventory.                                   *)
(***************************************************************************)
\* C28: selectPackForNextPlayer(pack) lowers the picked entry's inPerson by
\* exactly 1, removes that entry exactly when its inPerson <= 0 and
\* inTransit <= 0 afterwards, and leaves every other entry of tempInventory
\* present and unchanged, the entries with inPerson = 0 and inTransit = 0
\* included.
C28_PickFrame ==
    [][ Len(packsSelectedOrder') = Len(packsSelectedOrder) + 1
        => LET pack == packsSelectedOrder'[Len(packsSelectedOrder')]
           IN  \A k \in 1..Len(tempInventory) :
                  LET p == tempInventory[k]
                      lowered == [p EXCEPT !.inPerson = p.inPerson - 1]
                  IN  IF p.id = pack.id
                      THEN IF lowered.inPerson <= 0 /\ lowered.inTransit <= 0
                           THEN ~HasId(tempInventory', p.id)
                           ELSE \E j \in 1..Len(tempInventory') :
                                   tempInventory'[j] = lowered
                      ELSE \E j \in 1..Len(tempInventory') :
                              tempInventory'[j] = p ]_vars

\* C28 amended: selectPackForNextPlayer(pack) lowers the picked entry's
\* inPerson by exactly 1 and removes it exactly when its inPerson <= 0 and
\* inTransit <= 0 afterwards; every other entry that has inPerson > 0 or
\* inTransit > 0 stays present and unchanged, and every other entry with
\* inPerson <= 0 and inTransit <= 0 is removed by the same filter.
C28_PickFrameFiltered ==
    [][ Len(packsSelectedOrder') = Len(packsSelectedOrder) + 1
        => LET pack == packsSelectedOrder'[Len(packsSelectedOrder')]
           IN  /\ \A k \in 1..Len(tempInventory) :
                    LET p == tempInventory[k]
                        q == IF p.id = pack.id
                             THEN [p EXCEPT !.inPerson = p.inPerson - 1]
                             ELSE p
                    IN  IF q.inPerson <= 0 /\ q.inTransit <= 0
                        THEN ~HasId(tempInventory', p.id)
                        ELSE \E j \in 1..Len(tempInventory') : tempInventory'[j] = q
               /\ \A j \in 1..Len(tempInventory') :
                    HasId(tempInventory, tempInventory'[j].id) ]_vars

\* C28 witness: after the first pick the picked pack is still listed, one
\* unit lower, and an unpicked pack of the inventory without any unit has
\* left tempInventory
C28_Witness ==
    /\ Len(packsSelectedOrder) = 1
    /\ \E j \in 1..Len(tempInventory) :
          /\ tempInventory[j].id = packsSelectedOrder[1].id
          /\ tempInventory[j].inPerson = packsSelectedOrder[1].inPerson - 1
    /\ \E k \in 1..Len(packs) :
          /\ packs[k].id # packsSelectedOrder[1].id
          /\ packs[k].inPerson = 0 /\ packs[k].inTransit = 0
          /\ ~HasId(tempInventory, packs[k].id)

(***************************************************************************)
(* Ownership of the written pack documents.                                *)
(***************************************************************************)
\* C26: every write is scoped to the caller's own records: a step that
\* creates, changes or deletes a pack document is a step of a client whose
\* user is the document's stored ownerId.
C26_WritesScopedToCaller ==
    [][ \A id \in DOMAIN db :
          db'[id] # db[id]
          => \E c \in Clients :
                /\ call'[c] # call[c]
                /\ call[c].userId # NoUser
                /\ db[id].exists => db[id].ownerId = call[c].userId
                /\ db'[id].exists => db'[id].ownerId = call[c].userId ]_vars

(***************************************************************************)
(* The order of reads and writes inside the two transactions.              *)
(***************************************************************************)
\* the transaction of client c is in its reading part
Reading(cl, c) == cl[c].pc \in {"read", "revertDraft", "revert"}

\* C29: inside the transactions of confirmSessionPicks and deleteDraft every
\* read and check comes before the first write: the writes happen in the one
\* step that ends the reading part, with one staged write per pack read, and
\* while a transaction is reading it has written nothing.
C29_ReadsBeforeWrites ==
    [][ \A c \in Clients :
          /\ (Reading(call, c) /\ Reading(call', c))
                => /\ drafts' = drafts
                   /\ (db' = db \/ \E o \in Clients \ {c} : call'[o] # call[o])
          /\ (Reading(call, c) /\ call'[c].pc \in {"load", "revertLocal"})
                => /\ call[c].i > Len(call[c].packCounts)
                   /\ Len(call[c].docsToUpdate) = Len(call[c].packCounts)
                   /\ \A k \in 1..Len(call[c].packCounts) :
                         call[c].docsToUpdate[k].id = call[c].packCounts[k].id ]_vars

\* C29 witness: a deleteDraft transaction has read the entry and its pack
\* and committed its writes; the entry is gone and the pack holds the unit
C29_Witness ==
    /\ call["c1"].pc = "revertLocal"
    /\ ~drafts["d1"].exists
    /\ db["A"].exists /\ db["A"].inPerson >= 1

(***************************************************************************)
(* The history page (src/src/pages/DraftHistory.tsx): the restock alert of *)
(* an entry, computed from the entry and the inventory store's packs, and  *)
(* markRestockComplete of the history store.                               *)
(***************************************************************************)
\* inventoryMap: empty while the inventory loads, else pack id -> inPerson
inventoryMap(inventoryPacks, loading) ==
    IF loading THEN << >>
    ELSE [i \in {inventoryPacks[k].id : k \in 1..Len(inventoryPacks)} |->
            (CHOOSE p \in {inventoryPacks[k] : k \in 1..Len(inventoryPacks)} :
                p.id = i).inPerson]

\* inventoryMap.get(pack.id) || 0
InventoryCount(map, id) == IF id \in DOMAIN map THEN map[id] ELSE 0

\* the two loops of packsToRestock over the drafted packs: uniquePacks keeps
\* one pack per id whose inventory count is positive
RECURSIVE RestockScan(_, _, _)
RestockScan(ps, map, uniquePacks) ==
    IF ps = <<>> THEN uniquePacks
    ELSE RestockScan(Tail(ps), map,
                     IF InventoryCount(map, Head(ps).id) > 0
                     THEN uniquePacks \cup {Head(ps).id}
                     ELSE uniquePacks)

\* packsToRestock of RestockAlert, as the set of its pack ids
packsToRestockIgnoringComplete(draft, loading, map) ==
    IF loading THEN {}
    ELSE RestockScan(DraftedPacks(draft.players), map, {})
packsToRestock(draft, loading, map) ==
    IF draft.restockComplete \/ loading THEN {}
    ELSE RestockScan(DraftedPacks(draft.players), map, {})

\* {!inventoryLoading && <RestockAlert draft={draft} />}
RestockAlertRendered == ~inventoryLoading

\* markRestockComplete(draftId): updateDoc, then the local entry is marked;
\* updateDoc rejects for an entry that is no longer stored and the catch logs
MarkRestockComplete ==
    /\ auth["c1"] # NoUser
    /\ \E k \in 1..Len(localDrafts) :
          LET draftId == localDrafts[k].id
          IN  /\ drafts[draftId].exists
              /\ drafts' = [drafts EXCEPT ![draftId].restockComplete = TRUE]
              /\ localDrafts' = [j \in 1..Len(localDrafts) |->
                                   IF localDrafts[j].id = draftId
                                   THEN [localDrafts[j] EXCEPT !.restockComplete = TRUE]
                                   ELSE localDrafts[j]]
    /\ UNCHANGED <<db, auth, packs, call, sessionVars, confirmPc, draftVars, undone>>

\* the user's packs A and B, one of them maybe deleted since the draft that
\* named them was recorded
InitRestock ==
    /\ \E a \in {Doc(n, 0, "u1") : n \in 0..MaxQty},
          b \in {NoDoc} \cup {Doc(n, MaxTransit, "u1") : n \in 0..1} :
          db = [i \in PackIds |-> IF i = "A" THEN a ELSE b]
    /\ auth = [c \in Clients |-> "u1"]
    /\ packs = loadPacks(db, "u1")
    /\ call = [c \in Clients |-> NoCall]
    /\ \E ps \in DraftPlayerLists :
          /\ drafts = [d \in DraftIds |-> DraftDoc("u1", ps)]
          /\ localDrafts = <<DraftEntry("d1", DraftDoc("u1", ps))>>
    /\ InitNoSession

NextRestock ==
    \/ MarkRestockComplete
    \/ UpdatePack
    \/ CallConfirmSessionPicks("c1")
    \/ TxnRead("c1")
    \/ TxnCommit("c1")
    \/ LoadPacksAfterCommit("c1")
    \/ DeletePackCheck("c2")
    \/ DeletePackDelete("c2")

SpecRestock == InitRestock /\ [][NextRestock]_vars

\* the ids of the packs an entry names
EntryIds(draft) ==
    {DraftedPacks(draft.players)[k].id : k \in 1..Len(DraftedPacks(draft.players))}

\* C27: wherever the restock alert of an entry is rendered, its set of packs
\* is empty for an entry with restockComplete = true, and for any other
\* entry it is the set of the distinct drafted pack ids whose inPerson in
\* the current inventory is > 0: a function of the entry and the inventory
\* store's packs alone.
C27_RestockDerivation ==
    RestockAlertRendered =>
        \A k \in 1..Len(localDrafts) :
            LET draft == localDrafts[k]
                shown == packsToRestock(draft, inventoryLoading,
                                        inventoryMap(packs, inventoryLoading))
            IN  shown = IF draft.restockComplete THEN {}
                        ELSE {i \in EntryIds(draft) :
                                \E j \in 1..Len(packs) :
                                    packs[j].id = i /\ packs[j].inPerson > 0}

\* C27 witness: after a confirmed draft and the reload of the inventory, the
\* alert of an entry not marked complete that names A and B lists only A,
\* the one pack with units left
C27_Witness ==
    /\ RestockAlertRendered
    /\ call["c1"].outcome = "committed"
    /\ Len(localDrafts) = 1
    /\ ~localDrafts[1].restockComplete
    /\ EntryIds(localDrafts[1]) = {"A", "B"}
    /\ packsToRestock(localDrafts[1], inventoryLoading,
                      inventoryMap(packs, inventoryLoading)) = {"A"}

(***************************************************************************)
(* A draft from its start to the deletion of its history entry: one        *)
(* session of client c1 drafted and confirmed from the Draft page, the     *)
(* history entry recorded for it, and the entry deleted from another tab   *)
(* of the same user (client c2).  The function that records the entry is   *)
(* not part of the source at hand; it is written here from section 4.3 of  *)
(* the specification: invoked after confirmSession succeeds, it stores the *)
(* entry with restockComplete = false and the players' drafted packs, and  *)
(* its write may fail.                                                     *)
(***************************************************************************)
\* players (name + list of the packs actually drafted) of the entry
RecordedPlayers(ps) ==
    [k \in 1..Len(ps) |->
        [packs |-> [j \in 1..Len(ps[k].selectedPacks) |->
                        [id |-> ps[k].selectedPacks[j].id]]]]

\* record(sessionId, userId, players) once confirmSession has returned
ConfirmSessionRecorded ==
    /\ confirmPc = "awaiting"
    /\ call["c1"].pc = "done"
    /\ auth["c1"] # NoUser
    /\ confirmed' = TRUE
    /\ confirmPc' = "idle"
    /\ \E d \in DraftIds :
          /\ ~drafts[d].exists
          /\ drafts' = [drafts EXCEPT
                          ![d] = DraftDoc(auth["c1"], RecordedPlayers(players))]
    /\ UNCHANGED <<localDrafts, db, auth, packs, call, players, numPacks,
                   packsSelectedOrder, tempInventory, draftVars, undone>>

\* the setup form is submitted once
StartSession ==
    /\ Len(players) = 0
    /\ Len(packs) > 0
    /\ InitializeSession

\* a pick of the Draft page: canSpin wants the session unconfirmed
PickBeforeConfirm ==
    /\ ~confirmed
    /\ confirmPc = "idle"
    /\ SelectPackForNextPlayer

\* the user's pack A, with units in transit, and maybe a second pack B
InitRoundTrip ==
    /\ \E a \in {Doc(n, MaxTransit, "u1") : n \in 0..MaxQty},
          b \in {NoDoc, Doc(1, 0, "u1")} :
          db = [i \in PackIds |-> IF i = "A" THEN a ELSE b]
    /\ auth = [c \in Clients |-> "u1"]
    /\ packs = loadPacks(db, "u1")
    /\ call = [c \in Clients |-> NoCall]
    /\ InitNoSession
    /\ InitNoHistory

NextRoundTrip ==
    \/ StartSession
    \/ PickBeforeConfirm
    \/ HandleConfirm
    \/ TxnRead("c1")
    \/ TxnCommit("c1")
    \/ TxnUnavailable("c1")
    \/ LoadPacksAfterCommit("c1")
    \/ ConfirmSessionResumed
    \/ ConfirmSessionRecorded
    \/ CallDeleteDraft("c2")
    \/ RevertReadDraft("c2")
    \/ RevertReadPack("c2")
    \/ RevertCommit("c2")
    \/ RevertLocal("c2")

SpecRoundTrip == InitRoundTrip /\ [][NextRoundTrip]_vars

\* C25: a history entry is stored for a confirmed session only after the
\* inventory decrement of its confirm has committed, never before it or
\* without it; the entry has restockComplete = false and, for each player,
\* the packs of that player's selectedPacks.
C25_EntryAfterCommit ==
    [][ \A d \in DraftIds :
          (~drafts[d].exists /\ drafts'[d].exists)
          => /\ call["c1"].outcome = "committed"
             /\ ~drafts'[d].restockComplete
             /\ Len(drafts'[d].players) = Len(players)
             /\ \A k \in 1..Len(players) :
                   /\ Len(drafts'[d].players[k].packs) = Len(players[k].selectedPacks)
                   /\ \A j \in 1..Len(players[k].selectedPacks) :
                         drafts'[d].players[k].packs[j].id
                            = players[k].selectedPacks[j].id ]_vars

(***************************************************************************)
(* Confirm followed by the deletion of the history entry.                  *)
(***************************************************************************)
\* the confirm of the session committed, and the deleteDraft of its entry
\* committed after it
RoundTripDone ==
    /\ call["c1"].outcome = "committed"
    /\ \/ call["c2"].pc = "revertLocal"
       \/ call["c2"].pc = "done" /\ call["c2"].outcome = "committed"

\* the stored inPerson of pack id before the confirm: no document is written
\* between the start of the session and its confirm, so it is the inPerson
\* the pack carried when it was first picked
BeforeConfirm(id) ==
    LET first == CHOOSE k \in 1..Len(packsSelectedOrder) :
                    /\ packsSelectedOrder[k].id = id
                    /\ \A j \in 1..(k - 1) : packsSelectedOrder[j].id # id
    IN  packsSelectedOrder[first].inPerson

SessionIds == {packsSelectedOrder[k].id : k \in 1..Len(packsSelectedOrder)}

NextRace ==
    \/ AddPackQuery("c1")
    \/ AddPackWrite("c1")
    \/ UpdatePack
    \/ CallConfirmSessionPicks("c2")
    \/ TxnRead("c2")
    \/ TxnCommit("c2")
    \/ TxnRetry("c2")
    \/ LoadPacksAfterCommit("c2")

SpecRace == InitInventory /\ [][NextRace]_vars

\* C31: a write outside a transaction (addPack, updatePack, deletePack,
\* clearAll) does not compute what it writes from a value of the pack read
\* earlier, so it cannot undo the inPerson a committed transaction wrote:
\* the addPack of a pack that exists stores the inPerson that is in the
\* document at the write plus the added count, and a count button changes
\* the stored counts by its one unit.
C31_NoLostUpdate ==
    [][ /\ (call["c1"].pc = "add" /\ call'["c1"].pc # "add"
            /\ call["c1"].target # "" /\ db' # db)
            => db'[call["c1"].target].inPerson
                  = db[call["c1"].target].inPerson
                       + call["c1"].selectedPacks[1].inPerson
        /\ (call'["c1"] = call["c1"] /\ call'["c2"].pc = call["c2"].pc /\ db' # db)
            => \A id \in DOMAIN db :
                  db[id].exists =>
                     /\ db'[id].exists
                     /\ db'[id].inPerson - db[id].inPerson \in {0 - 1, 0, 1}
                     /\ db'[id].inTransit - db[id].inTransit \in {0 - 1, 0, 1}
                     /\ (db'[id].inPerson = db[id].inPerson
                         \/ db'[id].inTransit = db[id].inTransit) ]_vars

(***************************************************************************)
(* Properties of the Draft page's guards.                                  *)
(***************************************************************************)
\* C32: through the guards of the Draft page, once confirmed is true no
\* pick and no undo reaches the session store until the session is reset or
\* initialized again: the number of picks stays as it is, the pick of a
\* spin's delayed callback included.
C32_NoPickAfterConfirm ==
    [][ confirmed =>
            \/ Len(packsSelectedOrder') = Len(packsSelectedOrder)
            \/ (packsSelectedOrder' = <<>> /\ ~confirmed') ]_vars

\* inPerson of pack id in the pack list inv, 0 when the list has no such pack
InPersonOf(inv, id) ==
    IF HasId(inv, id)
    THEN (CHOOSE p \in {inv[k] : k \in 1..Len(inv)} : p.id = id).inPerson
    ELSE 0

\* C33: unit conservation.  In every state of a session and for every pack
\* id, the inPerson of the pack in tempInventory (0 when it is absent) plus
\* the number of its occurrences in packsSelectedOrder is its inPerson in
\* the inventory snapshot of the last initializeSession or resetSession.
C33_UnitConservation ==
    Len(players) > 0 =>
        \A id \in PackIds :
            InPersonOf(tempInventory, id) + CountId(packsSelectedOrder, id)
                = InPersonOf(packs, id)

\* C34: whenever confirmed is true, the confirm of this session has
\* committed, and the picks it decremented in the stored documents are, pack
\* by pack, as many as the session's packsSelectedOrder holds now.
C34_ConfirmedPicksCommitted ==
    confirmed =>
        /\ call["c1"].outcome = "committed"
        /\ \A id \in PageIds :
              CountId(call["c1"].selectedPacks, id) = CountId(packsSelectedOrder, id)

\* C36: through the Draft page packsSelectedOrder never grows beyond
\* numPacks: no spin starts and no pick is applied once the number of picks
\* is numPacks.
C36_PicksWithinNumPacks ==
    Len(players) > 0 => Len(packsSelectedOrder) <= numPacks


\* both clients have invoked deleteDraft for the entry d and both calls have
\* returned; the entry, where it is still stored, is the caller's
DeletedTwice(d) ==
    /\ \A c \in Clients :
          /\ call[c].pc = "done"
          /\ call[c].target = d
          /\ call[c].outcome \in {"committed", "failed"}
          /\ drafts[d].exists => drafts[d].userId = call[c].userId

\* C35: the revert of a history entry is applied at most once.  A commit of
\* deleteDraft finds the entry stored and leaves it deleted, an entry never
\* comes back, and a stored inPerson changes in no other step; when deleteDraft
\* was invoked twice for the same entry, one after the other or concurrently
\* from two clients, exactly one of the two calls has committed.
C35_RevertOnce ==
    [][/\ \A c \in Clients :
             RevertCommits(c) =>
                 /\ drafts[call[c].target].exists
                 /\ ~drafts'[call[c].target].exists
                 /\ \A o \in Clients \ {c} : ~RevertCommits(o)
       /\ \A d \in DraftIds : ~drafts[d].exists => ~drafts'[d].exists
       /\ (\E id \in DOMAIN db :
              db[id].exists /\ db'[id].exists /\ db'[id].inPerson # db[id].inPerson)
           => \E c \in Clients : RevertCommits(c)
       /\ \A d \in DraftIds :
             DeletedTwice(d)' =>
                 Cardinality({c \in Clients : call'[c].outcome = "committed"}) = 1
      ]_vars


\* the Draft page is at rest in an unconfirmed session that lacks picks: no
\* spin is running and no timeout of a spin is pending
AwaitingSpin ==
    /\ Len(players) > 0
    /\ ~confirmed
    /\ ~spinning
    /\ timeouts = 0
    /\ Len(packsSelectedOrder) < numPacks

\* C37: completion of the draft stays reachable by spinning.  While fewer than
\* numPacks picks exist, a spin can start whenever some tempInventory entry has
\* inPerson > 0, and whenever the inventory snapshot holds at least numPacks
\* units; so no unconfirmed state is a dead end for repeated spins.
C37_SpinNeverBlocked ==
    AwaitingSpin =>
        /\ (\E k \in 1..Len(tempInventory) : tempInventory[k].inPerson > 0) => canSpin
        /\ SumInPerson(packs) >= numPacks => canSpin


\* C38: a pick chosen by a spin that started before resetSession is not
\* applied to the new session.  While the timeout of a spin that was under way
\* at the reset has not fired, and in the step in which it fires, the session
\* gets no pick: packsSelectedOrder stays empty and tempInventory stays the
\* snapshot the reset took, or becomes the snapshot of a further reset.
C38_NoStalePickAfterReset ==
    [][undone = ResetDuringSpin =>
          /\ packsSelectedOrder' = <<>>
          /\ tempInventory' = tempInventory \/ tempInventory' = packs
      ]_vars
====
